---- MODULE Spec2Model ----
(***************************************************************************)
(* Model of the API access and caching subsystem of Eclipse-comics:        *)
(*   - APIWrapper   (src/src/services/apiWrapper.js)                       *)
(*   - RateLimiter  (src/src/utils/rateLimiter.js)                         *)
(*   - CacheManager (src/src/services/cacheManager.js)                     *)
(*   - error helpers (utils/apiHelpers.js, kept as src/unnamed/part_018)   *)
(*                                                                         *)
(* JavaScript runs one synchronous block at a time, so every action below  *)
(* is one synchronous block: the body of request() up to its return, the   *)
(* continuation of executeWithRetry after an await, a timer callback, a    *)
(* promise reaction.  Date.now() is read as the variable now, which does   *)
(* not change inside a synchronous block; it advances in the action Tick.  *)
(***************************************************************************)
EXTENDS Integers, Sequences, FiniteSets, TLC

(***************************************************************************)
(* Bounds of the model.                                                    *)
(***************************************************************************)
MaxCalls == 2          \* request() calls issued in one behaviour
MaxTime == 2           \* the clock runs over 0..MaxTime
MaxRetries == 1        \* the option retries ranges over 0..MaxRetries
RetryDelay == 1        \* the option retryDelay (scaled milliseconds)
DetailMaxRequests == 1 \* limits['/detail'].maxRequests, scaled down
DefaultMaxRequests == 1 \* limits.default.maxRequests, scaled down
WindowMs == 2          \* windowMs of every limit, scaled down
BackoffRetries == 3    \* retries of the requests whose waits are measured
BackoffTime == 7       \* the clock of those requests runs over 0..BackoffTime

Calls == 1..MaxCalls
Times == 0..MaxTime

(***************************************************************************)
(* Messages.  A message is a string of a finite universe; Phrases(m) is    *)
(* the set of the substrings tested by the code that m contains            *)
(* (String.prototype.includes, after toLowerCase() where the code lowers   *)
(* it: the "lc:" phrases; the others are matched case-sensitively).        *)
(***************************************************************************)
MsgNone == ""
MsgPageParam == "Parameter page diperlukan. Silakan berikan nomor halaman yang valid."
MsgKomik == "Komik tidak ditemukan."
MsgChapter == "Chapter tidak ditemukan."
MsgKeyword == "Keyword pencarian diperlukan."
MsgNetwork == "Tidak dapat terhubung ke server. Periksa koneksi internet Anda."
MsgTimeout == "Waktu permintaan habis. Silakan coba lagi."
MsgUnknownRetry == "Terjadi kesalahan yang tidak diketahui. Silakan coba lagi."
MsgUnknown == "Terjadi kesalahan yang tidak diketahui"
MsgCancelled == "Request cancelled"
MsgRateLimited == "Terlalu banyak permintaan. Silakan tunggu N detik."
MsgApiFailed == "API request failed"
MsgMissingData == "Invalid response structure: missing data field"
MsgInvalidFormat == "Invalid API response format"

StatusMessage(status) ==
  CASE status = 400 -> "Permintaan tidak valid. Silakan periksa parameter yang dikirim."
    [] status = 401 -> "Tidak memiliki izin untuk mengakses data ini."
    [] status = 403 -> "Akses ditolak."
    [] status = 404 -> "Data tidak ditemukan."
    [] status = 429 -> "Terlalu banyak permintaan. Silakan tunggu sebentar."
    [] status = 500 -> "Kesalahan server. Silakan coba lagi nanti."
    [] status = 503 -> "Layanan sedang tidak tersedia. Silakan coba lagi nanti."
    [] OTHER -> "Kesalahan server (status). Silakan coba lagi."

\* Messages a server or the transport may produce.
ServerMessages ==
  { "Page is required", "Comic not found", "Chapter not found",
    "Keyword is required", "Internal error", "timeout of 10000ms exceeded",
    "Network Error", "Value must be positive" }

Phrases(m) ==
  CASE m = "Page is required" -> {"required", "lc:page is required", "lc:required"}
    [] m = "Comic not found" -> {"lc:comic not found", "lc:not found"}
    [] m = "Chapter not found" -> {"lc:chapter not found", "lc:not found"}
    [] m = "Endpoint not found" -> {"lc:endpoint", "lc:not found"}
    [] m = "Keyword is required" -> {"required", "lc:keyword", "lc:required"}
    [] m = "timeout of 10000ms exceeded" -> {"timeout"}
    [] m = "Value must be positive" -> {"must be"}
    [] m = MsgKomik -> {"lc:komik tidak ditemukan", "lc:tidak ditemukan"}
    [] m = MsgChapter -> {"lc:chapter tidak ditemukan", "lc:tidak ditemukan"}
    [] m = MsgKeyword -> {"lc:keyword"}
    [] m = MsgTimeout -> {"habis"}
    [] m = StatusMessage(404) -> {"lc:tidak ditemukan"}
    [] OTHER -> {}

Includes(m, phrase) == phrase \in Phrases(m)

(***************************************************************************)
(* Error helpers (utils/apiHelpers.js).                                    *)
(* An error object is a record with the fields the code reads:             *)
(*   status     StatusError for the string 'error' of the standardized     *)
(*              format, the HTTP status of a transformed error, 0 when the *)
(*              field is absent or null                                    *)
(*   type       the kind, "" when absent                                   *)
(*   message    the message, "" when absent                                *)
(*   statusCode HTTP status of the standardized format, 0 when null        *)
(*   isNetworkError, retryAfter (0 when absent)                            *)
(***************************************************************************)
StatusError == -1

ERROR_TYPES ==
  {"network", "validation", "not_found", "server_error", "rate_limit",
   "timeout", "unknown"}

ErrorObject(status, type, message, statusCode, isNetworkError) ==
  [ status |-> status, type |-> type, message |-> message,
    statusCode |-> statusCode, isNetworkError |-> isNetworkError,
    retryAfter |-> 0 ]

NoError == ErrorObject(0, "", "", 0, FALSE)

\* A null or undefined error (the !error tests).
NullError == [ null |-> TRUE ]

createErrorResponse(message, type, status) ==
  ErrorObject(StatusError, type,
              IF message # "" THEN message ELSE MsgUnknown,
              status, FALSE)

\* Mutant: the message is consulted before the HTTP status.
classifyErrorTypeByMessage(error) ==
  IF error = NullError THEN "unknown"
  ELSE IF error.isNetworkError
  THEN IF Includes(error.message, "timeout") \/ Includes(error.message, "habis")
       THEN "timeout" ELSE "network"
  ELSE IF Includes(error.message, "must be") \/ Includes(error.message, "required")
       THEN "validation"
  ELSE IF \/ Includes(error.message, "lc:page is required")
          \/ Includes(error.message, "lc:keyword")
          \/ Includes(error.message, "lc:endpoint")
       THEN "validation"
  ELSE IF \/ Includes(error.message, "lc:not found")
          \/ Includes(error.message, "lc:tidak ditemukan")
       THEN "not_found"
  ELSE IF error.status # 0 /\ error.status = 404 THEN "not_found"
  ELSE IF error.status # 0 /\ error.status = 429 THEN "rate_limit"
  ELSE IF error.status # 0 /\ error.status >= 500 THEN "server_error"
  ELSE IF error.status # 0 /\ error.status = 400 THEN "validation"
  ELSE "unknown"

classifyErrorType(error) ==
  IF error = NullError THEN "unknown"
  ELSE IF error.isNetworkError
  THEN IF Includes(error.message, "timeout") \/ Includes(error.message, "habis")
       THEN "timeout" ELSE "network"
  ELSE IF error.status # 0 /\ error.status = 404 THEN "not_found"
  ELSE IF error.status # 0 /\ error.status = 429 THEN "rate_limit"
  ELSE IF error.status # 0 /\ error.status >= 500 THEN "server_error"
  ELSE IF error.status # 0 /\ error.status = 400 THEN "validation"
  ELSE IF Includes(error.message, "must be") \/ Includes(error.message, "required")
       THEN "validation"
  ELSE IF \/ Includes(error.message, "lc:page is required")
          \/ Includes(error.message, "lc:keyword")
          \/ Includes(error.message, "lc:endpoint")
       THEN "validation"
  ELSE IF \/ Includes(error.message, "lc:not found")
          \/ Includes(error.message, "lc:tidak ditemukan")
       THEN "not_found"
  ELSE IF Includes(error.message, "lc:comic not found") THEN "not_found"
  ELSE "unknown"

extractErrorMessage(error) ==
  IF error = NullError THEN MsgUnknown
  ELSE IF error.message # "" THEN error.message
  ELSE IF error.status # 0 THEN StatusMessage(error.status)
  ELSE MsgUnknownRetry

\* Mutant: an error in the standardized format is rebuilt like any other.
normalizeErrorAnew(error) ==
  IF error = NullError THEN createErrorResponse(MsgUnknown, "unknown", 0)
  ELSE createErrorResponse(
         extractErrorMessage(error),
         classifyErrorType(error),
         IF error.status # 0 THEN error.status ELSE error.statusCode)

normalizeError(error) ==
  IF error = NullError THEN createErrorResponse(MsgUnknown, "unknown", 0)
  ELSE IF error.status = StatusError /\ error.type # "" /\ error.message # ""
  THEN error
  ELSE createErrorResponse(
         extractErrorMessage(error),
         classifyErrorType(error),
         IF error.status # 0 THEN error.status ELSE error.statusCode)

(***************************************************************************)
(* What the transport (axios) hands to the wrapper.                        *)
(* An axios error: response received or not, its HTTP status and the       *)
(* message of its body, request sent or not, error.code, error.message.    *)
(***************************************************************************)
AxiosError(hasResponse, status, dataMessage, hasRequest, code, message) ==
  [ hasResponse |-> hasResponse, status |-> status, dataMessage |-> dataMessage,
    hasRequest |-> hasRequest, code |-> code, message |-> message ]

\* The message rewriting of transformError for a received response.
ApiMessage(message) ==
  IF Includes(message, "lc:page is required") THEN MsgPageParam
  ELSE IF \/ Includes(message, "lc:comic not found")
          \/ Includes(message, "lc:komik tidak ditemukan") THEN MsgKomik
  ELSE IF \/ Includes(message, "lc:chapter not found")
          \/ Includes(message, "lc:chapter tidak ditemukan") THEN MsgChapter
  ELSE IF Includes(message, "lc:keyword") /\ Includes(message, "lc:required")
       THEN MsgKeyword
  ELSE message

transformError(error) ==
  normalizeError(
    IF error.hasResponse
    THEN LET message == ApiMessage(error.dataMessage)
         IN ErrorObject(error.status, "",
                        IF message # "" THEN message ELSE StatusMessage(error.status),
                        0, FALSE)
    ELSE IF error.hasRequest
    THEN ErrorObject(0, "", MsgNetwork, 0, TRUE)
    ELSE IF error.code = "ECONNABORTED" \/ Includes(error.message, "timeout")
    THEN ErrorObject(0, "", MsgTimeout, 0, TRUE)
    ELSE ErrorObject(0, "",
                     IF error.message # "" THEN error.message ELSE MsgUnknownRetry,
                     0, FALSE))

(***************************************************************************)
(* A response: its HTTP status and its body.  The body (envelope) is void  *)
(* (falsy) or an object with an optional status field ("" when absent), an *)
(* optional data field, an optional message and the rest of its fields.    *)
(* A value handed to the caller is either an inner payload (inner = TRUE,  *)
(* the payload in data) or an object with the fields shown.                *)
(***************************************************************************)
Envelope(void, status, hasData, data, message, rest) ==
  [ void |-> void, status |-> status, hasData |-> hasData, data |-> data,
    message |-> message, rest |-> rest ]

Response(status, body) == [ status |-> status, body |-> body ]

Value(http, inner, status, hasData, data, message, rest) ==
  [ http |-> http, inner |-> inner, status |-> status, hasData |-> hasData,
    data |-> data, message |-> message, rest |-> rest ]

NoValue == Value(0, FALSE, "", FALSE, "", "", "")

\* Mutant: the envelope is handed over as it is, whatever its status.
validateResponseAsIs(response) ==
  LET data == response.body IN
  IF data.void
  THEN [ ok |-> FALSE, value |-> NoValue, message |-> MsgMissingData ]
  ELSE [ ok |-> TRUE,
         value |-> Value(response.status, FALSE, data.status, data.hasData,
                         data.data, data.message, data.rest),
         message |-> "" ]

\* validateResponse: [ok, value] on return, [ok = FALSE, message] on throw.
validateResponse(response) ==
  LET data == response.body IN
  IF data.void
  THEN [ ok |-> FALSE, value |-> NoValue, message |-> MsgMissingData ]
  ELSE IF data.status # ""
  THEN IF data.status = "success"
       THEN [ ok |-> TRUE,
              value |-> IF data.hasData
                        THEN Value(response.status, TRUE, "", FALSE, data.data, "", "")
                        ELSE Value(response.status, FALSE, "", FALSE, "",
                                   data.message, data.rest),
              message |-> "" ]
       ELSE [ ok |-> FALSE, value |-> NoValue,
              message |-> IF data.message # "" THEN data.message ELSE MsgApiFailed ]
  ELSE [ ok |-> TRUE,
         value |-> Value(response.status, FALSE, "", data.hasData, data.data,
                         data.message, data.rest),
         message |-> "" ]

\* The error executeWithRetry builds when validateResponse throws.
wrappedError(response, message) ==
  normalizeError(
    ErrorObject(IF response.status # 0 THEN response.status ELSE 200, "",
                IF message # "" THEN message ELSE MsgInvalidFormat, 0, FALSE))

(***************************************************************************)
(* Retry policy of the wrapper.                                            *)
(***************************************************************************)
RECURSIVE Pow2(_)
Pow2(n) == IF n = 0 THEN 1 ELSE 2 * Pow2(n - 1)

\* Mutant: the delay grows by baseDelay with each attempt.
getRetryDelayLinear(attempt, baseDelay) == baseDelay * (attempt + 1)

getRetryDelay(attempt, baseDelay) == baseDelay * Pow2(attempt)

\* Mutant: the fallback on the status code retries every status.
isRetryableErrorAnyStatus(error) ==
  LET errorType == IF error.type # "" THEN error.type ELSE classifyErrorType(error)
      statusCode == IF error.statusCode # 0 THEN error.statusCode ELSE error.status
  IN IF errorType = "validation" \/ errorType = "not_found" THEN FALSE
     ELSE IF errorType \in {"network", "timeout", "server_error"} THEN TRUE
     ELSE IF errorType = "rate_limit" THEN TRUE
     ELSE IF statusCode # 0 THEN TRUE
     ELSE error.isNetworkError = TRUE

\* Mutant: only validation errors are excluded from retrying.
isRetryableErrorButValidation(error) ==
  LET errorType == IF error.type # "" THEN error.type ELSE classifyErrorType(error)
  IN errorType # "validation"

isRetryableError(error) ==
  LET errorType == IF error.type # "" THEN error.type ELSE classifyErrorType(error)
      statusCode == IF error.statusCode # 0 THEN error.statusCode ELSE error.status
  IN IF errorType = "validation" \/ errorType = "not_found" THEN FALSE
     ELSE IF errorType \in {"network", "timeout", "server_error"} THEN TRUE
     ELSE IF errorType = "rate_limit" THEN TRUE
     ELSE IF statusCode # 0 THEN statusCode >= 500 \/ statusCode = 429
     ELSE error.isNetworkError = TRUE

(***************************************************************************)
(* Parameter validation (utils/apiHelpers.js).                             *)
(* A JavaScript value is a record of its type, its characters when it is a *)
(* string and, when it is a number, its value in tenths, so that 1.5 is    *)
(* the number 15 tenths.                                                   *)
(***************************************************************************)
JsValue(type, text, tenths) == [ type |-> type, text |-> text, tenths |-> tenths ]

Undefined == JsValue("undefined", <<>>, 0)
JsNull == JsValue("null", <<>>, 0)
NaN == JsValue("NaN", <<>>, 0)
Str(text) == JsValue("string", text, 0)
Num(tenths) == JsValue("number", <<>>, tenths)

\* typeof v
TypeOf(v) ==
  CASE v.type = "NaN" -> "number"
    [] v.type = "null" -> "object"
    [] OTHER -> v.type

\* !v
Falsy(v) ==
  \/ v.type \in {"undefined", "null", "NaN"}
  \/ v.type = "string" /\ v.text = <<>>
  \/ v.type = "number" /\ v.tenths = 0

RECURSIVE TrimStart(_)
TrimStart(text) ==
  IF text # <<>> /\ Head(text) = " " THEN TrimStart(Tail(text)) ELSE text

RECURSIVE TrimEnd(_)
TrimEnd(text) ==
  IF text # <<>> /\ text[Len(text)] = " "
  THEN TrimEnd(SubSeq(text, 1, Len(text) - 1))
  ELSE text

\* String.prototype.trim
Trim(text) == TrimEnd(TrimStart(text))

\* String.prototype.toLowerCase
ToLowerCase(text) == [ i \in 1..Len(text) |-> IF text[i] = "A" THEN "a" ELSE text[i] ]

DigitChars == <<"0", "1", "2", "3", "4", "5", "6", "7", "8", "9">>

IsDigit(ch) == \E i \in 1..Len(DigitChars) : DigitChars[i] = ch

DigitOf(ch) == (CHOOSE i \in 1..Len(DigitChars) : DigitChars[i] = ch) - 1

RECURSIVE DigitPrefix(_)
DigitPrefix(text) ==
  IF text # <<>> /\ IsDigit(Head(text))
  THEN <<Head(text)>> \o DigitPrefix(Tail(text))
  ELSE <<>>

RECURSIVE DigitsValue(_)
DigitsValue(digits) ==
  IF digits = <<>> THEN 0
  ELSE 10 * DigitsValue(SubSeq(digits, 1, Len(digits) - 1)) + DigitOf(digits[Len(digits)])

\* parseInt(v, 10): leading white space is skipped, an optional sign and the
\* longest prefix of digits are read, the rest is ignored.
parseInt(v) ==
  IF v.type # "string" THEN NaN
  ELSE LET s == TrimStart(v.text)
           signed == s # <<>> /\ Head(s) \in {"-", "+"}
           digits == DigitPrefix(IF signed THEN Tail(s) ELSE s)
       IN IF digits = <<>> THEN NaN
          ELSE Num((IF signed /\ Head(s) = "-" THEN -10 ELSE 10) * DigitsValue(digits))

\* The outcome of a validator: the value it returns or the message of the
\* Error it throws.
Returned(value) == [ threw |-> FALSE, value |-> value, message |-> "" ]
Thrown(message) == [ threw |-> TRUE, value |-> Undefined, message |-> message ]

validateEndpoint(endpoint) ==
  IF Falsy(endpoint) \/ TypeOf(endpoint) # "string"
  THEN Thrown("Endpoint must be a non-empty string")
  ELSE IF Len(Trim(endpoint.text)) = 0
  THEN Thrown("Endpoint cannot be empty")
  ELSE Returned(Str(Trim(endpoint.text)))

MinKeywordLength == 2

validateKeyword(keyword) ==
  IF Falsy(keyword) \/ TypeOf(keyword) # "string"
  THEN Thrown("Keyword must be a non-empty string")
  ELSE LET trimmed == Trim(keyword.text)
       IN IF Len(trimmed) = 0 THEN Thrown("Keyword cannot be empty")
          ELSE IF Len(trimmed) < MinKeywordLength
          THEN Thrown("Keyword must be at least 2 characters")
          ELSE Returned(Str(trimmed))

validateGenre(genre) ==
  IF Falsy(genre) \/ TypeOf(genre) # "string"
  THEN Thrown("Genre must be a non-empty string")
  ELSE Returned(Str(ToLowerCase(Trim(genre.text))))

MAX_PAGE == 1000

validatePage(page) ==
  LET pageNum == IF TypeOf(page) = "number" THEN page ELSE parseInt(page)
  IN IF pageNum.type = "NaN" \/ pageNum.tenths < 1 * 10
     THEN Thrown("Page must be a positive integer")
     ELSE IF pageNum.tenths > MAX_PAGE * 10
     THEN Thrown("Page must be less than or equal to 1000")
     ELSE Returned(pageNum)

(***************************************************************************)
(* The facade (services/api.js): what each method with parameters does     *)
(* with its arguments, before the wrapper is involved.                     *)
(***************************************************************************)
Descriptor(method, url, params, data) ==
  [ method |-> method, url |-> url, params |-> params, data |-> data ]

\* The strings callers pass: "", a blank, a name of one and of two characters,
\* a name with a blank before it and an upper-case name.
Texts == { <<>>, <<" ">>, <<"a">>, <<"a", "a">>, <<" ", "a">>, <<"A">> }

TextValues == { Str(t) : t \in Texts } \cup { Undefined, Num(10) }

\* The page arguments callers pass: absent, null, 0, 1, 1.5, 1000, 1001, "2a"
\* and "a".
PageValues ==
  { Undefined, JsNull, Num(0), Num(10), Num(15),
    Num(MAX_PAGE * 10), Num(MAX_PAGE * 10 + 10),
    Str(<<"2", "a">>), Str(<<"a">>) }

RECURSIVE Join(_)
Join(text) == IF text = <<>> THEN "" ELSE Head(text) \o Join(Tail(text))

\* JSON.stringify of a number.
NumberText(n) ==
  ToString(n.tenths \div 10)
    \o (IF n.tenths % 10 = 0 THEN "" ELSE "." \o ToString(n.tenths % 10))

\* A parameter with a default value.
Default(v, d) == IF v.type = "undefined" THEN d ELSE v

\* What a facade method does: it calls apiWrapper.get(url, {params}) or it
\* returns Promise.reject(error) with the Error the validator threw.
Get(url, params) ==
  [ threw |-> FALSE, message |-> "", config |-> Descriptor("get", url, params, "") ]
Reject(message) ==
  [ threw |-> TRUE, message |-> message, config |-> Descriptor("", "", "", "") ]

getTerbaru(page) ==
  LET validatedPage == validatePage(Default(page, Num(10)))
  IN IF validatedPage.threw THEN Reject(validatedPage.message)
     ELSE Get("/terbaru", "{page:" \o NumberText(validatedPage.value) \o "}")

getDetail(endpoint) ==
  LET validatedEndpoint == validateEndpoint(endpoint)
  IN IF validatedEndpoint.threw THEN Reject(validatedEndpoint.message)
     ELSE Get("/detail" \o "/" \o Join(validatedEndpoint.value.text), "")

search(keyword) ==
  LET validatedKeyword == validateKeyword(keyword)
  IN IF validatedKeyword.threw THEN Reject(validatedKeyword.message)
     ELSE Get("/search", "{keyword:" \o Join(validatedKeyword.value.text) \o "}")

readChapter(endpoint) ==
  LET validatedEndpoint == validateEndpoint(endpoint)
  IN IF validatedEndpoint.threw THEN Reject(validatedEndpoint.message)
     ELSE Get("/read" \o "/" \o Join(validatedEndpoint.value.text), "")

getGenreComics(genre, page) ==
  LET validatedGenre == validateGenre(genre)
      validatedPage == validatePage(Default(page, Num(10)))
  IN IF validatedGenre.threw THEN Reject(validatedGenre.message)
     ELSE IF validatedPage.threw THEN Reject(validatedPage.message)
     ELSE Get("/genre" \o "/" \o Join(validatedGenre.value.text),
              "{page:" \o NumberText(validatedPage.value) \o "}")

Methods == {"getTerbaru", "getDetail", "search", "readChapter", "getGenreComics"}

\* The argument lists of a method; a method with one parameter gets the
\* second one absent, and getGenreComics gets every genre without a page and
\* every page with one genre.
Arguments(method) ==
  CASE method = "getTerbaru" -> PageValues \X {Undefined}
    [] method = "getGenreComics" ->
         (TextValues \X {Undefined}) \cup ({Str(<<"a">>)} \X PageValues)
    [] OTHER -> TextValues \X {Undefined}

komikcastAPI(method, args) ==
  CASE method = "getTerbaru" -> getTerbaru(args[1])
    [] method = "getDetail" -> getDetail(args[1])
    [] method = "search" -> search(args[1])
    [] method = "readChapter" -> readChapter(args[1])
    [] method = "getGenreComics" -> getGenreComics(args[1], args[2])

\* The descriptors the facade hands to the wrapper.
FacadeDescs ==
  { komikcastAPI(m, args).config :
      m \in Methods, args \in UNION { Arguments(n) : n \in Methods } }
   \ { Descriptor("", "", "", "") }

(***************************************************************************)
(* Rate limiter (utils/rateLimiter.js).                                    *)
(* Urls are the request paths of the model; UrlIncludes(url, pattern) is   *)
(* url.includes(pattern) on them.                                          *)
(***************************************************************************)
Urls == {"/detail/a", "/detail/b", "/genre"} \cup { d.url : d \in FacadeDescs }

\* The paths of the model that start with prefix and a slash.
Under(prefix) ==
  { prefix \o "/" \o Join(Trim(t)) : t \in Texts } \cup { prefix \o "/b" }

UrlIncludes(url, pattern) ==
  \/ pattern \in {"/detail", "/read"} /\ url \in Under(pattern)
  \/ pattern \in {"/terbaru", "/search"} /\ url = pattern

\* The keys of this.limits other than default, in Object.entries order.
LimitPatterns ==
  <<"/terbaru", "/popular", "/recommended", "/search", "/detail", "/read">>

Limit(maxRequests, windowMs) == [ maxRequests |-> maxRequests, windowMs |-> windowMs ]

limits(pattern) ==
  IF pattern = "/detail" THEN Limit(DetailMaxRequests, WindowMs)
  ELSE Limit(DefaultMaxRequests, WindowMs)

\* The first pattern the endpoint includes, "default" when there is none.
MatchedPattern(endpoint) ==
  LET hits == { i \in 1..Len(LimitPatterns) : UrlIncludes(endpoint, LimitPatterns[i]) }
  IN IF hits = {} THEN "default"
     ELSE LimitPatterns[CHOOSE i \in hits : \A j \in hits : i <= j]

getLimitConfig(endpoint) == limits(MatchedPattern(endpoint))

\* The key of requestHistory under which the timestamps of endpoint are kept.
HistoryKey(endpoint) == endpoint

\* Mutant: a timestamp on the edge of the window is kept.
FilterRecentInclusive(history, windowStart) ==
  SelectSeq(history, LAMBDA t : t >= windowStart)

FilterRecent(history, windowStart) == SelectSeq(history, LAMBDA t : t > windowStart)

\* Mutant: the comparison of line 62 admits one request too many.
AllowedInclusive(remaining) == remaining >= 0

\* canMakeRequest, line 62.
Allowed(remaining) == remaining > 0

\* The result of canMakeRequest; recent is the list it stores back.
canMakeRequest(history, endpoint, time) ==
  LET limit == getLimitConfig(endpoint)
      recentRequests == FilterRecent(history[HistoryKey(endpoint)], time - limit.windowMs)
      remaining == limit.maxRequests - Len(recentRequests)
      allowed == Allowed(remaining)
  IN [ allowed |-> allowed,
       remaining |-> IF remaining > 0 THEN remaining ELSE 0,
       resetAt |-> IF allowed \/ recentRequests = <<>> THEN 0
                   ELSE recentRequests[1] + limit.windowMs,
       limit |-> limit.maxRequests,
       windowMs |-> limit.windowMs,
       recent |-> recentRequests ]

\* Mutant: the filtered list is not stored back.
AfterCheckUnstored(history, endpoint, time) == history

\* requestHistory after canMakeRequest(endpoint).
AfterCheck(history, endpoint, time) ==
  [ history EXCEPT ![HistoryKey(endpoint)] = canMakeRequest(history, endpoint, time).recent ]

\* requestHistory after recordRequest(endpoint).
recordRequest(history, endpoint, time) ==
  [ history EXCEPT ![HistoryKey(endpoint)] = Append(@, time) ]

getDelay(history, endpoint, time) ==
  LET result == canMakeRequest(history, endpoint, time)
  IN IF result.allowed THEN 0
     ELSE IF result.resetAt # 0
          THEN IF result.resetAt - time > 0 THEN result.resetAt - time ELSE 0
          ELSE 0

(***************************************************************************)
(* Request descriptors and options of the wrapper.                         *)
(***************************************************************************)
\* The descriptors the callers of the model use; params and data are the
\* JSON texts of the objects, "" when the object is absent.
Descs ==
  { Descriptor("get", "/detail/a", "", ""),
    Descriptor("get", "/detail/b", "", ""),
    Descriptor("get", "/detail/a", "{page:1}", ""),
    Descriptor("get", "/genre", "", "") }
  \cup FacadeDescs

getRequestKey(config) == <<config.method, config.url, config.params, config.data>>

Keys == { getRequestKey(d) : d \in Descs }

Options(retries, retryDelay, enableDeduplication, enableRateLimit) ==
  [ retries |-> retries, retryDelay |-> retryDelay,
    enableDeduplication |-> enableDeduplication,
    enableRateLimit |-> enableRateLimit ]

NoDescriptor == Descriptor("", "", "", "")
NoOptions == Options(0, 0, FALSE, FALSE)

\* What the transport may answer to one attempt in the wrapper's model.
Payloads == {"p1", "p2"}

TransportResponses ==
  { Response(200, Envelope(FALSE, "success", TRUE, p, "", "")) : p \in Payloads }
  \cup { Response(200, Envelope(FALSE, "", FALSE, "", "", "p1")),
         Response(200, Envelope(FALSE, "error", FALSE, "", "Comic not found", "")) }

TransportErrors ==
  { AxiosError(TRUE, 500, "", TRUE, "", ""),
    AxiosError(TRUE, 429, "", TRUE, "", ""),
    AxiosError(TRUE, 404, "Comic not found", TRUE, "", ""),
    AxiosError(TRUE, 400, "Page is required", TRUE, "", ""),
    AxiosError(TRUE, 401, "", TRUE, "", ""),
    AxiosError(FALSE, 0, "", TRUE, "", "Network Error"),
    AxiosError(FALSE, 0, "", FALSE, "ECONNABORTED", "timeout of 10000ms exceeded") }

VARIABLES
  now,              \* Date.now()
  requestHistory,   \* RateLimiter.requestHistory: endpoint -> timestamps
  pendingRequests,  \* APIWrapper.pendingRequests: key -> owner of the promise, 0 = none
  pc,               \* per call: idle, joined, denied, attempting, sleeping, settled
  config,           \* per call: the descriptor passed to request()
  options,          \* per call: the options passed to request()
  signal,           \* per call: "none", "live" or "aborted" (options.signal)
  attempt,          \* per call: the loop variable of executeWithRetry
  lastError,        \* per call: the variable lastError of executeWithRetry
  wakeAt,           \* per call: when the timer of sleep(delay) is due
  promise,          \* per call: state, value and reason of the promise it created
  via,              \* per call: the call whose promise request() returned
  microtasks,       \* calls whose finally-callback is queued while code still runs
  attempts,         \* history: network attempts started per call
  lastAttempt,      \* history: what the last attempt of the call got from the transport
  check,            \* history: the canMakeRequest result request() acted on
  inflightAtIssue,  \* history: the calls in flight for the same key at request()
  triggered,        \* history: per call, when its AbortController was triggered
  facade            \* history: per call, the facade method called and its arguments

wrapperVars ==
  << now, requestHistory, pendingRequests, pc, config, options, signal, attempt,
     lastError, wakeAt, promise, via, microtasks, attempts, lastAttempt, check,
     inflightAtIssue, triggered, facade >>

\* The state of the CacheManager (modelled below).
VARIABLES
  memoryCache,   \* CacheManager.memoryCache: the entries in insertion order
  localStorage,  \* window.localStorage: the two items of each cache key
  sets,          \* history: the number of set() calls
  lastSet,       \* history: per key, the most recent set()
  lastGet,       \* history: the most recent get() and what it returned
  since,         \* history: per key, the data last set and what was done since
  probe,         \* a function of the error helpers or of the wrapper, applied
                 \* on its own: its name, its argument and what it returned
  hook           \* a component that uses useKomikcastAPI: options, state, refs

cacheVars ==
  << memoryCache, localStorage, sets, lastSet, lastGet, since, probe, hook >>

Promise(state, value, reason) == [ state |-> state, value |-> value, reason |-> reason ]

NoCheck == [ consulted |-> FALSE, allowed |-> FALSE, resetAt |-> 0, at |-> 0,
             recorded |-> FALSE, retryAfter |-> 0 ]

NoResponse == Response(0, Envelope(TRUE, "", FALSE, "", "", ""))

\* n-th attempt of the call; responded: the transport delivered a response.
Attempt(n, responded, response) ==
  [ n |-> n, responded |-> responded, response |-> response ]

NoAttempt == Attempt(0, FALSE, NoResponse)

InFlight(c) == pc[c] \in {"attempting", "sleeping"}

\* The moment a signal was aborted: the attempts the request had started and
\* the place its call was at ("idle": before request() was called, "late": a
\* caller that joined a request which has settled since).
NoTrigger == [ done |-> FALSE, attempts |-> 0, at |-> "" ]
Trigger(n, at) == [ done |-> TRUE, attempts |-> n, at |-> at ]

\* A call made through the facade: the method and the arguments it was given.
Invocation(method, args) == [ method |-> method, args |-> args ]
NoInvocation == Invocation("", <<>>)

\* The state after construction; n calls will be issued.
WrapperInit(n) ==
  /\ now = 0
  /\ requestHistory = [ u \in Urls |-> <<>> ]
  /\ pendingRequests = [ k \in Keys |-> 0 ]
  /\ pc = [ c \in Calls |-> IF c <= n THEN "idle" ELSE "unused" ]
  /\ config = [ c \in Calls |-> NoDescriptor ]
  /\ options = [ c \in Calls |-> NoOptions ]
  /\ signal = [ c \in Calls |-> "none" ]
  /\ attempt = [ c \in Calls |-> 0 ]
  /\ lastError = [ c \in Calls |-> NoError ]
  /\ wakeAt = [ c \in Calls |-> 0 ]
  /\ promise = [ c \in Calls |-> Promise("none", NoValue, NoError) ]
  /\ via = [ c \in Calls |-> 0 ]
  /\ microtasks = {}
  /\ attempts = [ c \in Calls |-> 0 ]
  /\ lastAttempt = [ c \in Calls |-> NoAttempt ]
  /\ check = [ c \in Calls |-> NoCheck ]
  /\ inflightAtIssue = [ c \in Calls |-> {} ]
  /\ triggered = [ c \in Calls |-> NoTrigger ]
  /\ facade = [ c \in Calls |-> NoInvocation ]

(***************************************************************************)
(* APIWrapper.request and executeWithRetry.                                *)
(***************************************************************************)
\* Mutant: the pending request is found only when the rate limiter admits
\* the url of the key.
HasPendingAfterGate(enableDeduplication, requestKey) ==
  /\ enableDeduplication
  /\ pendingRequests[requestKey] # 0
  /\ canMakeRequest(requestHistory, requestKey[2], now).allowed

\* Mutant: the lookup of line 265 never finds the pending request.
HasPendingNever(enableDeduplication, requestKey) == FALSE

\* request(), line 265: is there a pending request for the key?
HasPending(enableDeduplication, requestKey) ==
  enableDeduplication /\ pendingRequests[requestKey] # 0

\* Mutant: the promise is not stored in pendingRequests.
StorePendingNever(enableDeduplication, requestKey, c) == pendingRequests

\* request(), lines 294-295: pendingRequests after the promise of call c is stored.
StorePending(enableDeduplication, requestKey, c) ==
  IF enableDeduplication
  THEN [ pendingRequests EXCEPT ![requestKey] = c ]
  ELSE pendingRequests

\* request(), lines 298-301: pendingRequests after the finally-callback of call c.
DeletePending(enableDeduplication, requestKey) ==
  IF enableDeduplication
  THEN [ pendingRequests EXCEPT ![requestKey] = 0 ]
  ELSE pendingRequests

\* request(), lines 275-280: the error thrown on a denied check.
RateLimitError(delay) ==
  [ normalizeError(ErrorObject(429, "", MsgRateLimited, 0, FALSE))
      EXCEPT !.type = "rate_limit", !.retryAfter = delay ]

\* executeWithRetry, line 316: new Error('Request cancelled').
CancelledError == ErrorObject(0, "", MsgCancelled, 0, FALSE)

\* Mutant: the loop runs one iteration too many.
GivesUpLate(attemptIndex, maxRetries, error) ==
  attemptIndex = maxRetries + 1 \/ ~isRetryableError(error)

\* executeWithRetry, line 349: the error is thrown instead of retried.
GivesUp(attemptIndex, maxRetries, error) ==
  attemptIndex = maxRetries \/ ~isRetryableError(error)

\* requestHistory when request() passes the rate-limit gate (lines 271-288).
Admit(enableRateLimit, url) ==
  IF enableRateLimit /\ url # ""
  THEN recordRequest(AfterCheck(requestHistory, url, now), url, now)
  ELSE requestHistory

\* Mutant: the request is recorded before the check, so also when it is denied.
DenyRecorded(url) ==
  recordRequest(AfterCheck(AfterCheck(requestHistory, url, now), url, now), url, now)

\* requestHistory when request() throws at the rate-limit gate (lines 272-281):
\* canMakeRequest and getDelay each store the pruned list, nothing is recorded.
Deny(url) ==
  AfterCheck(AfterCheck(requestHistory, url, now), url, now)

\* Some timestamp list is longer after than before; before is the history as
\* canMakeRequest left it, so that pruning does not hide an appended timestamp.
Grew(before, after) == \E u \in Urls : Len(after[u]) > Len(before[u])

\* The next call to be issued: calls are numbered in the order of request().
NextCall(c) == pc[c] = "idle" /\ \A d \in Calls : d < c => pc[d] # "idle"

Request(c, cfg, opts, sig) ==
  LET requestKey == getRequestKey(cfg)
      limited == opts.enableRateLimit /\ cfg.url # ""
      rateLimitCheck == canMakeRequest(requestHistory, cfg.url, now)
      delay == getDelay(AfterCheck(requestHistory, cfg.url, now), cfg.url, now)
  IN
  /\ NextCall(c)
  /\ config' = [ config EXCEPT ![c] = cfg ]
  /\ options' = [ options EXCEPT ![c] = opts ]
  /\ signal' = [ signal EXCEPT ![c] = sig ]
  /\ triggered' = [ triggered EXCEPT ![c] =
                      IF sig = "aborted" THEN Trigger(0, "idle") ELSE NoTrigger ]
  /\ inflightAtIssue' =
       [ inflightAtIssue EXCEPT ![c] =
           IF opts.enableDeduplication
           THEN { d \in Calls : /\ InFlight(d)
                                /\ options[d].enableDeduplication
                                /\ getRequestKey(config[d]) = requestKey }
           ELSE {} ]
  /\ IF HasPending(opts.enableDeduplication, requestKey)
     THEN \* line 267: the pending promise is returned
          /\ via' = [ via EXCEPT ![c] = pendingRequests[requestKey] ]
          /\ pc' = [ pc EXCEPT ![c] = "joined" ]
          /\ UNCHANGED << requestHistory, pendingRequests, promise, microtasks,
                          attempts, check >>
     ELSE IF limited /\ ~rateLimitCheck.allowed
     THEN \* lines 273-281: the call is rejected at once
          /\ requestHistory' = Deny(cfg.url)
          /\ via' = [ via EXCEPT ![c] = c ]
          /\ pc' = [ pc EXCEPT ![c] = "denied" ]
          /\ promise' = [ promise EXCEPT ![c] =
                            Promise("rejected", NoValue, RateLimitError(delay)) ]
          /\ check' = [ check EXCEPT ![c] =
                          [ consulted |-> TRUE, allowed |-> FALSE,
                            resetAt |-> rateLimitCheck.resetAt, at |-> now,
                            recorded |-> Grew(AfterCheck(requestHistory, cfg.url, now),
                                              Deny(cfg.url)),
                            retryAfter |-> delay ] ]
          /\ UNCHANGED << pendingRequests, microtasks, attempts >>
     ELSE \* lines 285-304: recorded, executeWithRetry started, promise stored
          /\ requestHistory' = Admit(opts.enableRateLimit, cfg.url)
          /\ via' = [ via EXCEPT ![c] = c ]
          /\ check' = [ check EXCEPT ![c] =
                          [ consulted |-> limited, allowed |-> limited,
                            resetAt |-> 0, at |-> now,
                            recorded |-> Grew(IF limited
                                              THEN AfterCheck(requestHistory, cfg.url, now)
                                              ELSE requestHistory,
                                              Admit(opts.enableRateLimit, cfg.url)),
                            retryAfter |-> 0 ] ]
          /\ pendingRequests' = StorePending(opts.enableDeduplication, requestKey, c)
          /\ IF sig = "aborted"
             THEN \* line 316 in the first iteration: the promise is born rejected and
                  \* its finally-callback is queued behind the running code
                  /\ promise' = [ promise EXCEPT ![c] =
                                    Promise("rejected", NoValue, CancelledError) ]
                  /\ pc' = [ pc EXCEPT ![c] = "settled" ]
                  /\ microtasks' = IF opts.enableDeduplication
                                   THEN microtasks \cup {c} ELSE microtasks
                  /\ UNCHANGED attempts
             ELSE \* line 320: the first attempt is handed to the transport
                  /\ promise' = [ promise EXCEPT ![c] =
                                    Promise("pending", NoValue, NoError) ]
                  /\ pc' = [ pc EXCEPT ![c] = "attempting" ]
                  /\ attempts' = [ attempts EXCEPT ![c] = 1 ]
                  /\ UNCHANGED microtasks
  /\ UNCHANGED << now, attempt, lastError, wakeAt, lastAttempt >>
  /\ UNCHANGED cacheVars

\* A call of a facade method (api.js, lines 187-294): the arguments are
\* validated; the call goes to apiWrapper.get with deduplication forced on, or
\* the Error of the validator is returned in a rejected promise.
Invoke(c, method, args, opts, sig) ==
  LET call == komikcastAPI(method, args) IN
  /\ NextCall(c)
  /\ facade' = [ facade EXCEPT ![c] = Invocation(method, args) ]
  /\ IF call.threw
     THEN /\ pc' = [ pc EXCEPT ![c] = "settled" ]
          /\ via' = [ via EXCEPT ![c] = c ]
          /\ promise' = [ promise EXCEPT ![c] =
                            Promise("rejected", NoValue,
                                    ErrorObject(0, "", call.message, 0, FALSE)) ]
          /\ UNCHANGED << now, requestHistory, pendingRequests, config, options,
                          signal, attempt, lastError, wakeAt, microtasks, attempts,
                          lastAttempt, check, inflightAtIssue, triggered >>
          /\ UNCHANGED cacheVars
     ELSE Request(c, call.config, [ opts EXCEPT !.enableDeduplication = TRUE ], sig)

\* The finally-callback of a promise that was rejected before it was stored.
Cleanup(c) ==
  /\ c \in microtasks
  /\ microtasks' = microtasks \ {c}
  /\ pendingRequests' =
       DeletePending(options[c].enableDeduplication, getRequestKey(config[c]))
  /\ UNCHANGED << now, requestHistory, pc, config, options, signal, attempt,
                  lastError, wakeAt, promise, via, attempts, lastAttempt, check,
                  inflightAtIssue, triggered, facade >>
  /\ UNCHANGED cacheVars

\* A loop that ends without settling the promise request() returned.
SettleNever(c, state, value, reason) ==
  /\ promise' = promise
  /\ pc' = [ pc EXCEPT ![c] = "settled" ]
  /\ pendingRequests' =
       DeletePending(options[c].enableDeduplication, getRequestKey(config[c]))

\* The promise of call c settles; its finally-callback is the first reaction of
\* the promise, so it runs before any other code can call request().
Settle(c, state, value, reason) ==
  /\ promise' = [ promise EXCEPT ![c] = Promise(state, value, reason) ]
  /\ pc' = [ pc EXCEPT ![c] = "settled" ]
  /\ pendingRequests' =
       DeletePending(options[c].enableDeduplication, getRequestKey(config[c]))

\* executeWithRetry, lines 345-363: the catch block.
Catch(c, error) ==
  /\ lastError' = [ lastError EXCEPT ![c] = error ]
  /\ IF GivesUp(attempt[c], options[c].retries, error)
     THEN /\ Settle(c, "rejected", NoValue, error)
          /\ UNCHANGED wakeAt
     ELSE /\ pc' = [ pc EXCEPT ![c] = "sleeping" ]
          /\ wakeAt' = [ wakeAt EXCEPT ![c] =
                           now + getRetryDelay(attempt[c], options[c].retryDelay) ]
          /\ UNCHANGED << promise, pendingRequests >>

\* The transport answers the attempt of call c with a response (lines 320-344).
TransportResponds(c, response) ==
  LET validated == validateResponse(response) IN
  /\ pc[c] = "attempting"
  /\ microtasks = {}
  /\ IF validated.ok
     THEN /\ Settle(c, "resolved", validated.value, NoError)
          /\ UNCHANGED << lastError, wakeAt >>
     ELSE Catch(c, wrappedError(response, validated.message))
  /\ lastAttempt' = [ lastAttempt EXCEPT ![c] = Attempt(attempts[c], TRUE, response) ]
  /\ UNCHANGED << now, requestHistory, config, options, signal, attempt, via,
                  microtasks, attempts, check, inflightAtIssue, triggered, facade >>
  /\ UNCHANGED cacheVars

\* The transport fails the attempt of call c; the response interceptor hands
\* transformError(error) to executeWithRetry (lines 72-85, 345).
TransportFails(c, error) ==
  /\ pc[c] = "attempting"
  /\ microtasks = {}
  /\ Catch(c, transformError(error))
  /\ lastAttempt' = [ lastAttempt EXCEPT ![c] = Attempt(attempts[c], FALSE, NoResponse) ]
  /\ UNCHANGED << now, requestHistory, config, options, signal, attempt, via,
                  microtasks, attempts, check, inflightAtIssue, triggered, facade >>
  /\ UNCHANGED cacheVars

\* Mutant: the loop looks at the signals of all the callers of the request.
WakeAnySignal(c) ==
  /\ pc[c] = "sleeping"
  /\ microtasks = {}
  /\ now >= wakeAt[c]
  /\ attempt' = [ attempt EXCEPT ![c] = @ + 1 ]
  /\ wakeAt' = [ wakeAt EXCEPT ![c] = 0 ]
  /\ IF \E d \in Calls : via[d] = c /\ signal[d] = "aborted"
     THEN /\ Settle(c, "rejected", NoValue, CancelledError)
          /\ UNCHANGED attempts
     ELSE /\ pc' = [ pc EXCEPT ![c] = "attempting" ]
          /\ attempts' = [ attempts EXCEPT ![c] = @ + 1 ]
          /\ UNCHANGED << promise, pendingRequests >>
  /\ UNCHANGED << now, requestHistory, config, options, signal, lastError, via,
                  microtasks, lastAttempt, check, inflightAtIssue, triggered, facade >>
  /\ UNCHANGED cacheVars

\* Mutant: every attempt after the first is recorded in the rate limiter.
WakeRecorded(c) ==
  /\ pc[c] = "sleeping"
  /\ microtasks = {}
  /\ now >= wakeAt[c]
  /\ attempt' = [ attempt EXCEPT ![c] = @ + 1 ]
  /\ wakeAt' = [ wakeAt EXCEPT ![c] = 0 ]
  /\ IF signal[c] = "aborted"
     THEN /\ Settle(c, "rejected", NoValue, CancelledError)
          /\ UNCHANGED << attempts, requestHistory >>
     ELSE /\ pc' = [ pc EXCEPT ![c] = "attempting" ]
          /\ attempts' = [ attempts EXCEPT ![c] = @ + 1 ]
          /\ requestHistory' = recordRequest(requestHistory, config[c].url, now)
          /\ UNCHANGED << promise, pendingRequests >>
  /\ UNCHANGED << now, config, options, signal, lastError, via,
                  microtasks, lastAttempt, check, inflightAtIssue, triggered, facade >>
  /\ UNCHANGED cacheVars

\* The timer of sleep(delay) fires: the next iteration of the loop (lines 313-320).
Wake(c) ==
  /\ pc[c] = "sleeping"
  /\ microtasks = {}
  /\ now >= wakeAt[c]
  /\ attempt' = [ attempt EXCEPT ![c] = @ + 1 ]
  /\ wakeAt' = [ wakeAt EXCEPT ![c] = 0 ]
  /\ IF signal[c] = "aborted"
     THEN /\ Settle(c, "rejected", NoValue, CancelledError)
          /\ UNCHANGED attempts
     ELSE /\ pc' = [ pc EXCEPT ![c] = "attempting" ]
          /\ attempts' = [ attempts EXCEPT ![c] = @ + 1 ]
          /\ UNCHANGED << promise, pendingRequests >>
  /\ UNCHANGED << now, requestHistory, config, options, signal, lastError, via,
                  microtasks, lastAttempt, check, inflightAtIssue, triggered, facade >>
  /\ UNCHANGED cacheVars

\* The caller triggers the AbortController whose signal it passed.
Abort(c) ==
  /\ signal[c] = "live"
  /\ pc[c] \in {"joined", "attempting", "sleeping"}
  /\ microtasks = {}
  /\ signal' = [ signal EXCEPT ![c] = "aborted" ]
  /\ triggered' = [ triggered EXCEPT ![c] =
                      Trigger(attempts[via[c]],
                              IF pc[c] = "joined" /\ ~InFlight(via[c])
                              THEN "late" ELSE pc[c]) ]
  /\ UNCHANGED << now, requestHistory, pendingRequests, pc, config, options,
                  attempt, lastError, wakeAt, promise, via, microtasks, attempts,
                  lastAttempt, check, inflightAtIssue, facade >>
  /\ UNCHANGED cacheVars

\* Time passes; queued microtasks run before any timer or I/O event.
TickUntil(limit) ==
  /\ now < limit
  /\ microtasks = {}
  /\ now' = now + 1
  /\ UNCHANGED << requestHistory, pendingRequests, pc, config, options, signal,
                  attempt, lastError, wakeAt, promise, via, microtasks, attempts,
                  lastAttempt, check, inflightAtIssue, triggered, facade >>
  /\ UNCHANGED cacheVars

Tick == TickUntil(MaxTime)

(***************************************************************************)
(* CacheManager (services/cacheManager.js): a memory tier, a Map in         *)
(* insertion order, in front of localStorage.  The field cachedAt of a      *)
(* memory entry is written and never read; it is left out.                  *)
(***************************************************************************)
MaxCacheSize == 2
DefaultTTL == 2
MaxSets == 3

CacheKeys == {"detail_a", "detail_b", "genre", "read_a"}

\* The values callers cache; NaN stands for the values JSON does not keep.
CachedData == {"v1", "NaN"}

\* The ttl argument of set(); 0 is the omitted argument (null).
TTLs == {0, 1}

\* JavaScript null.
Null == "null"

\* The singleton is constructed with useLocalStorage: true, in a browser.
useLocalStorage == TRUE

\* JSON.stringify: NaN is written as null.
JSONstringify(data) ==
  CASE data = "v1" -> "'v1'"
    [] OTHER -> "null"

JSONparse(text) ==
  CASE text = "'v1'" -> "v1"
    [] OTHER -> Null

\* An entry of memoryCache; expiresAt 0 is null.
Entry(key, data, expiresAt) == [ key |-> key, data |-> data, expiresAt |-> expiresAt ]

\* The two localStorage items of a cache key: storagePrefix + key holds the
\* JSON text, storageTimePrefix + key the expiry time.
Item(hasData, data, hasTime, time) ==
  [ hasData |-> hasData, data |-> data, hasTime |-> hasTime, time |-> time ]

NoItem == Item(FALSE, "", FALSE, 0)

MemoryHas(memory, key) == \E i \in 1..Len(memory) : memory[i].key = key

MemoryEntry(memory, key) ==
  memory[CHOOSE i \in 1..Len(memory) : memory[i].key = key]

\* Map.delete
MemoryDelete(memory, key) == SelectSeq(memory, LAMBDA e : e.key # key)

\* Map.set: a key of the map keeps its place, a new key goes last.
MemorySet(memory, entry) ==
  IF MemoryHas(memory, entry.key)
  THEN [ i \in 1..Len(memory) |-> IF memory[i].key = entry.key THEN entry ELSE memory[i] ]
  ELSE Append(memory, entry)

\* The result of a read: what it returns and the tier it leaves behind.
Read(data, tier) == [ data |-> data, tier |-> tier ]

getFromMemory(memory, key, time) ==
  IF ~MemoryHas(memory, key)
  THEN Read(Null, memory)
  ELSE LET entry == MemoryEntry(memory, key) IN
       IF entry.expiresAt # 0 /\ time > entry.expiresAt
       THEN Read(Null, MemoryDelete(memory, key))
       ELSE Read(entry.data, memory)

removeFromLocalStorage(storage, key) ==
  IF useLocalStorage THEN [ storage EXCEPT ![key] = NoItem ] ELSE storage

getFromLocalStorage(storage, key, time) ==
  LET item == storage[key] IN
  IF ~useLocalStorage \/ ~item.hasData \/ ~item.hasTime
  THEN Read(Null, storage)
  ELSE IF time > item.time
  THEN Read(Null, removeFromLocalStorage(storage, key))
  ELSE Read(JSONparse(item.data), storage)

\* Mutant: nothing is deleted to make room.
setToMemoryKeepsAll(memory, key, data, ttl, time) ==
  MemorySet(memory, Entry(key, data, IF ttl # 0 THEN time + ttl ELSE 0))

\* Mutant: the key set last is deleted to make room, not the first one.
setToMemoryEvictsNewest(memory, key, data, ttl, time) ==
  LET expiresAt == IF ttl # 0 THEN time + ttl ELSE 0
      room == IF Len(memory) >= MaxCacheSize
              THEN SubSeq(memory, 1, Len(memory) - 1) ELSE memory
  IN MemorySet(room, Entry(key, data, expiresAt))

\* setToMemory, lines 102-117: the first key is deleted whenever the map is
\* full, then the entry is set.
setToMemory(memory, key, data, ttl, time) ==
  LET expiresAt == IF ttl # 0 THEN time + ttl ELSE 0
      room == IF Len(memory) >= MaxCacheSize THEN Tail(memory) ELSE memory
  IN MemorySet(room, Entry(key, data, expiresAt))

\* How the two setItem calls of one write end: both succeed, the first or the
\* second throws QuotaExceededError, or the first throws another error.
WriteOutcomes == {"ok", "quota_data", "quota_time", "error"}

\* The outcomes of the write and of its retry.
Quotas ==
  { <<"ok", "ok">>, <<"error", "ok">> }
  \cup { <<f, r>> : f \in {"quota_data", "quota_time"},
                    r \in {"ok", "quota_data", "quota_time"} }

\* localStorage.setItem(cacheKey, ...); localStorage.setItem(timeKey, ...)
setItems(storage, key, data, expiresAt, outcome) ==
  CASE outcome = "ok" ->
         [ storage EXCEPT ![key] = Item(TRUE, JSONstringify(data), TRUE, expiresAt) ]
    [] outcome = "quota_time" ->
         [ storage EXCEPT ![key] = Item(TRUE, JSONstringify(data), @.hasTime, @.time) ]
    [] OTHER -> storage

\* clearOldLocalStorageEntries, lines 244-267: the sets of keys that can be
\* the oldest 25% by stored time (the order of equal times is the storage's).
OldestQuarter(storage) ==
  LET timed == { k \in CacheKeys : storage[k].hasTime }
      toRemove == Cardinality(timed) \div 4
  IN { S \in SUBSET timed :
         /\ Cardinality(S) = toRemove
         /\ \A a \in S, b \in timed \ S : storage[a].time <= storage[b].time }

clearOldLocalStorageEntries(storage, time, oldest) ==
  LET keysToRemove == { k \in CacheKeys : storage[k].hasTime /\ time > storage[k].time }
      removed == IF keysToRemove = {} THEN oldest ELSE keysToRemove
  IN IF ~useLocalStorage
     THEN storage
     ELSE [ k \in CacheKeys |-> IF k \in removed THEN NoItem ELSE storage[k] ]

\* Mutant: the persistent entry always gets the default time to live.
setToLocalStorageDefaultTTL(storage, key, data, ttl, time, quota, oldest) ==
  LET expiresAt == time + DefaultTTL
      first == setItems(storage, key, data, expiresAt, quota[1])
  IN IF ~useLocalStorage
     THEN storage
     ELSE IF quota[1] \in {"quota_data", "quota_time"}
     THEN setItems(clearOldLocalStorageEntries(first, time, oldest),
                   key, data, expiresAt, quota[2])
     ELSE first

\* Mutant: the write is retried without clearing anything.
setToLocalStorageRetryOnly(storage, key, data, ttl, time, quota, oldest) ==
  LET expiresAt == time + (IF ttl # 0 THEN ttl ELSE DefaultTTL)
      first == setItems(storage, key, data, expiresAt, quota[1])
  IN IF ~useLocalStorage
     THEN storage
     ELSE IF quota[1] \in {"quota_data", "quota_time"}
     THEN setItems(first, key, data, expiresAt, quota[2])
     ELSE first

\* setToLocalStorage; quota is the outcome of the write and of its retry.
setToLocalStorage(storage, key, data, ttl, time, quota, oldest) ==
  LET expiresAt == time + (IF ttl # 0 THEN ttl ELSE DefaultTTL)
      first == setItems(storage, key, data, expiresAt, quota[1])
  IN IF ~useLocalStorage
     THEN storage
     ELSE IF quota[1] \in {"quota_data", "quota_time"}
     THEN setItems(clearOldLocalStorageEntries(first, time, oldest),
                   key, data, expiresAt, quota[2])
     ELSE first

\* The patterns passed to invalidatePattern, and RegExp.test on a cache key
\* and on the text "time_" + key.
Patterns == {"detail", "^genre", "^time_"}

RegexTest(pattern, key, timePrefixed) ==
  CASE pattern = "detail" -> key \in {"detail_a", "detail_b"}
    [] pattern = "^genre" -> key = "genre" /\ ~timePrefixed
    [] pattern = "^time_" -> timePrefixed
    [] OTHER -> FALSE

NoSet == [ called |-> FALSE, at |-> 0, ttl |-> 0 ]
NoGet == [ called |-> FALSE, key |-> "", at |-> 0, data |-> Null, from |-> "none" ]

\* The data of the most recent set() of a key, and what was done to the key
\* since then: "nothing", "read" (one get of it) or "more" (anything else that
\* names the key or works on all keys).
Since(data, then) == [ data |-> data, then |-> then ]
NoData == Since("", "")

Written(key, data) == [ since EXCEPT ![key] = Since(data, "nothing") ]

Got(key) ==
  [ since EXCEPT ![key].then = CASE @ = "nothing" -> "read"
                                 [] @ = "read" -> "more"
                                 [] OTHER -> @ ]

Touched(keys) ==
  [ k \in CacheKeys |->
      IF k \in keys /\ since[k] # NoData THEN Since(since[k].data, "more")
      ELSE since[k] ]

CacheInit ==
  /\ memoryCache = <<>>
  /\ localStorage = [ k \in CacheKeys |-> NoItem ]
  /\ sets = 0
  /\ lastSet = [ k \in CacheKeys |-> NoSet ]
  /\ lastGet = NoGet
  /\ since = [ k \in CacheKeys |-> NoData ]

\* set(key, data, ttl), lines 156-162.
set(key, data, ttl, quota) ==
  LET cacheTTL == IF ttl # 0 THEN ttl ELSE DefaultTTL IN
  /\ sets < MaxSets
  /\ sets' = sets + 1
  /\ memoryCache' = setToMemory(memoryCache, key, data, cacheTTL, now)
  /\ \E oldest \in OldestQuarter(setItems(localStorage, key, data, now + cacheTTL,
                                          quota[1])) :
       localStorage' =
         setToLocalStorage(localStorage, key, data, cacheTTL, now, quota, oldest)
  /\ lastSet' = [ lastSet EXCEPT ![key] =
                    [ called |-> TRUE, at |-> now, ttl |-> cacheTTL ] ]
  /\ UNCHANGED lastGet
  /\ UNCHANGED wrapperVars

\* Mutant: a value read from localStorage is not put back into memory.
getWithoutRestore(key) ==
  LET fromMemory == getFromMemory(memoryCache, key, now)
      fromStorage == getFromLocalStorage(localStorage, key, now)
  IN
  /\ memoryCache' = fromMemory.tier
  /\ localStorage' = IF fromMemory.data # Null THEN localStorage ELSE fromStorage.tier
  /\ lastGet' = [ called |-> TRUE, key |-> key, at |-> now,
                  data |-> IF fromMemory.data # Null THEN fromMemory.data
                           ELSE fromStorage.data,
                  from |-> IF fromMemory.data # Null THEN "memory"
                           ELSE IF fromStorage.data # Null THEN "localStorage"
                           ELSE "none" ]
  /\ UNCHANGED << sets, lastSet >>
  /\ UNCHANGED wrapperVars

\* get(key), lines 79-97.
get(key) ==
  LET fromMemory == getFromMemory(memoryCache, key, now)
      fromStorage == getFromLocalStorage(localStorage, key, now)
  IN
  /\ IF fromMemory.data # Null
     THEN /\ memoryCache' = fromMemory.tier
          /\ UNCHANGED localStorage
          /\ lastGet' = [ called |-> TRUE, key |-> key, at |-> now,
                          data |-> fromMemory.data, from |-> "memory" ]
     ELSE IF fromStorage.data # Null
     THEN /\ memoryCache' =
               setToMemory(fromMemory.tier, key, fromStorage.data, DefaultTTL, now)
          /\ localStorage' = fromStorage.tier
          /\ lastGet' = [ called |-> TRUE, key |-> key, at |-> now,
                          data |-> fromStorage.data, from |-> "localStorage" ]
     ELSE /\ memoryCache' = fromMemory.tier
          /\ localStorage' = fromStorage.tier
          /\ lastGet' = [ called |-> TRUE, key |-> key, at |-> now,
                          data |-> Null, from |-> "none" ]
  /\ UNCHANGED << sets, lastSet >>
  /\ UNCHANGED wrapperVars

\* Mutant: the key is deleted from the memory tier only.
removeFromMemoryOnly(key) ==
  /\ memoryCache' = MemoryDelete(memoryCache, key)
  /\ UNCHANGED << localStorage, sets, lastSet, lastGet >>
  /\ UNCHANGED wrapperVars

\* remove(key), lines 167-172.
remove(key) ==
  /\ memoryCache' = MemoryDelete(memoryCache, key)
  /\ localStorage' = removeFromLocalStorage(localStorage, key)
  /\ UNCHANGED << sets, lastSet, lastGet >>
  /\ UNCHANGED wrapperVars

\* clear(), lines 193-210.
clear ==
  /\ memoryCache' = <<>>
  /\ localStorage' = IF useLocalStorage
                     THEN [ k \in CacheKeys |-> NoItem ] ELSE localStorage
  /\ UNCHANGED << sets, lastSet, lastGet >>
  /\ UNCHANGED wrapperVars

\* cleanup(), lines 276-290; sweep is Math.random() < 0.1.
cleanup(sweep) ==
  /\ memoryCache' =
       SelectSeq(memoryCache, LAMBDA e : ~(e.expiresAt # 0 /\ now > e.expiresAt))
  /\ IF sweep
     THEN \E oldest \in OldestQuarter(localStorage) :
            localStorage' = clearOldLocalStorageEntries(localStorage, now, oldest)
     ELSE UNCHANGED localStorage
  /\ UNCHANGED << sets, lastSet, lastGet >>
  /\ UNCHANGED wrapperVars

\* invalidatePattern(pattern), lines 295-323.  An item named storageTimePrefix
\* + key also starts with storagePrefix: the loop tests "time_" + key and, on
\* a match, removes the item storagePrefix + "time_" + key, the time of key.
invalidatePattern(pattern) ==
  /\ memoryCache' = SelectSeq(memoryCache, LAMBDA e : ~RegexTest(pattern, e.key, FALSE))
  /\ localStorage' =
       IF ~useLocalStorage
       THEN localStorage
       ELSE [ k \in CacheKeys |->
                LET item == localStorage[k] IN
                IF item.hasData /\ RegexTest(pattern, k, FALSE)
                THEN NoItem
                ELSE IF item.hasTime /\ RegexTest(pattern, k, TRUE)
                THEN Item(item.hasData, item.data, FALSE, 0)
                ELSE item ]
  /\ UNCHANGED << sets, lastSet, lastGet >>
  /\ UNCHANGED wrapperVars

(***************************************************************************)
(* useKomikcastAPI (hooks/useKomikcastAPI.js): a component that fetches    *)
(* with apiFunction and caches under cacheKey.  apiFunction is a call of   *)
(* the facade; the calls are numbered, and a call that was made settles    *)
(* when the step Resolve or Reject of its number is taken.                 *)
(*   skip, enableCache   options of the hook                               *)
(*   alive               the component is in the tree                      *)
(*   started             the effect has run                                *)
(*   mountedRef          mountedRef.current                                *)
(*   data, loading, error  the state (error "" is null)                    *)
(*   controller          the call of abortControllerRef.current, 0 = none  *)
(*   aborted             the calls whose signal is aborted                 *)
(*   pending             the calls awaited by a fetchData                  *)
(*   calls               the number of calls of apiFunction made           *)
(*   shown               history: where data came from, "cache" or a call  *)
(*   refetched           history: the call made by the last refetch() and  *)
(*                       whether a tier held the key when it was called    *)
(*   last                history: the call that settled last, and how      *)
(***************************************************************************)
MaxFetches == 3
HookTTL == 1

HookKey == "detail_a"

Shown(source, id) == [ source |-> source, id |-> id ]

Hook(skip, enableCache) ==
  [ skip |-> skip, enableCache |-> enableCache, alive |-> TRUE, started |-> FALSE,
    mountedRef |-> TRUE, data |-> Null, loading |-> ~skip, error |-> "",
    controller |-> 0, aborted |-> {}, pending |-> {}, calls |-> 0,
    shown |-> Shown("none", 0), refetched |-> [ id |-> 0, cached |-> FALSE ],
    last |-> [ id |-> 0, how |-> "" ] ]

NoHook == [ none |-> TRUE ]

\* What a call resolves with, and what extractApiData makes of it: the data
\* of the response, null when it has none.
ApiResponse(hasData, data) == [ hasData |-> hasData, data |-> data ]

extractApiData(response) == IF response.hasData THEN response.data ELSE Null

MsgEmptyData == "API mengembalikan data kosong"

\* cacheManager.get(key) on the tiers given: what it returns, the tiers it
\* leaves behind and the tier that had the data.
getResult(memory, storage, key) ==
  LET fromMemory == getFromMemory(memory, key, now)
      fromStorage == getFromLocalStorage(storage, key, now)
  IN IF fromMemory.data # Null
     THEN [ data |-> fromMemory.data, memory |-> fromMemory.tier,
            storage |-> storage, from |-> "memory" ]
     ELSE IF fromStorage.data # Null
     THEN [ data |-> fromStorage.data,
            memory |-> setToMemory(fromMemory.tier, key, fromStorage.data,
                                   DefaultTTL, now),
            storage |-> fromStorage.tier, from |-> "localStorage" ]
     ELSE [ data |-> Null, memory |-> fromMemory.tier,
            storage |-> fromStorage.tier, from |-> "none" ]

\* The part of fetchData after the cache check: the previous controller is
\* aborted, a new one is made and apiFunction is called.
callApi(h) ==
  LET id == h.calls + 1 IN
  [ h EXCEPT !.aborted = IF h.controller # 0 THEN @ \cup {h.controller} ELSE @,
             !.controller = id,
             !.loading = TRUE,
             !.error = "",
             !.pending = @ \cup {id},
             !.calls = id ]

\* fetchData() of the component in state h, on the tiers given.
fetchData(h, memory, storage) ==
  LET cached == getResult(memory, storage, HookKey) IN
  IF h.skip
  THEN /\ hook' = [ h EXCEPT !.loading = FALSE ]
       /\ memoryCache' = memory
       /\ localStorage' = storage
       /\ UNCHANGED lastGet
  ELSE IF h.enableCache
  THEN /\ memoryCache' = cached.memory
       /\ localStorage' = cached.storage
       /\ lastGet' = [ called |-> TRUE, key |-> HookKey, at |-> now,
                       data |-> cached.data, from |-> cached.from ]
       /\ hook' = IF cached.data # Null
                  THEN [ h EXCEPT !.data = cached.data, !.loading = FALSE,
                                  !.error = "", !.shown = Shown("cache", 0) ]
                  ELSE callApi(h)
  ELSE /\ hook' = callApi(h)
       /\ memoryCache' = memory
       /\ localStorage' = storage
       /\ UNCHANGED lastGet

\* The effect runs for the first time.
Mount ==
  /\ hook.alive
  /\ ~hook.started
  /\ fetchData([ hook EXCEPT !.started = TRUE ], memoryCache, localStorage)
  /\ UNCHANGED << sets, lastSet, since, probe >>
  /\ UNCHANGED wrapperVars

\* The cleanup of the effect, lines 166-171.
effectCleanup(h) ==
  [ h EXCEPT !.mountedRef = FALSE,
             !.aborted = IF h.controller # 0 THEN @ \cup {h.controller} ELSE @ ]

\* fetchData changes with the dependencies: the cleanup of the effect runs,
\* then the effect.
DependenciesChange ==
  /\ hook.alive
  /\ hook.started
  /\ hook.calls < MaxFetches
  /\ fetchData(effectCleanup(hook), memoryCache, localStorage)
  /\ UNCHANGED << sets, lastSet, since, probe >>
  /\ UNCHANGED wrapperVars

Unmount ==
  /\ hook.alive
  /\ hook.started
  /\ hook' = [ effectCleanup(hook) EXCEPT !.alive = FALSE ]
  /\ UNCHANGED << memoryCache, localStorage, sets, lastSet, lastGet, since, probe >>
  /\ UNCHANGED wrapperVars

\* Mutant: refetch leaves the cache as it is.
refetchKeepsCache ==
  /\ hook.alive
  /\ hook.started
  /\ hook.calls < MaxFetches
  /\ fetchData(hook, memoryCache, localStorage)
  /\ UNCHANGED << sets, lastSet, since, probe >>
  /\ UNCHANGED wrapperVars

\* refetch(), lines 154-160.
refetch ==
  /\ hook.alive
  /\ hook.started
  /\ hook.calls < MaxFetches
  /\ fetchData([ hook EXCEPT !.refetched =
                   [ id |-> hook.calls + 1,
                     cached |-> MemoryHas(memoryCache, HookKey)
                                \/ localStorage[HookKey] # NoItem ] ],
               MemoryDelete(memoryCache, HookKey),
               removeFromLocalStorage(localStorage, HookKey))
  /\ UNCHANGED << sets, lastSet, since, probe >>
  /\ UNCHANGED wrapperVars

\* The catch block of fetchData, lines 113-132, and the finally block.
caught(h, id, message) ==
  IF id \in h.aborted \/ ~h.mountedRef
  THEN h
  ELSE [ h EXCEPT !.error = message, !.data = Null, !.loading = FALSE,
                  !.shown = Shown("none", 0) ]

\* Mutant: the data of a call is cached whether the component is still
\* mounted and the call still wanted or not.
ResolvesAlwaysCaches(id, response, quota) ==
  LET extractedData == extractApiData(response)
      h == [ hook EXCEPT !.pending = @ \ {id},
                         !.last = [ id |-> id, how |-> IF extractedData = Null
                                                       THEN "empty" ELSE "resolved" ] ]
  IN
  /\ id \in hook.pending
  /\ IF extractedData = Null
     THEN /\ hook' = caught(h, id, MsgEmptyData)
          /\ UNCHANGED << memoryCache, localStorage, sets, lastSet, lastGet >>
          /\ UNCHANGED wrapperVars
     ELSE /\ hook' = IF h.mountedRef /\ id \notin h.aborted
                     THEN [ h EXCEPT !.data = extractedData, !.error = "",
                                     !.loading = FALSE, !.shown = Shown("call", id) ]
                     ELSE h
          /\ IF h.enableCache
             THEN set(HookKey, extractedData, HookTTL, quota)
             ELSE /\ UNCHANGED << memoryCache, localStorage, sets, lastSet, lastGet >>
                  /\ UNCHANGED wrapperVars
  /\ UNCHANGED << since, probe >>

\* The call id resolves with response: fetchData goes on after its await,
\* lines 82-111 and 133-137.
Resolves(id, response, quota) ==
  LET extractedData == extractApiData(response)
      h == [ hook EXCEPT !.pending = @ \ {id},
                         !.last = [ id |-> id, how |-> IF extractedData = Null
                                                       THEN "empty" ELSE "resolved" ] ]
  IN
  /\ id \in hook.pending
  /\ IF extractedData = Null
     THEN /\ hook' = caught(h, id, MsgEmptyData)
          /\ UNCHANGED << memoryCache, localStorage, sets, lastSet, lastGet >>
          /\ UNCHANGED wrapperVars
     ELSE IF h.mountedRef /\ id \notin h.aborted
     THEN /\ hook' = [ h EXCEPT !.data = extractedData, !.error = "",
                                !.loading = FALSE, !.shown = Shown("call", id) ]
          /\ IF h.enableCache
             THEN set(HookKey, extractedData, HookTTL, quota)
             ELSE /\ UNCHANGED << memoryCache, localStorage, sets, lastSet, lastGet >>
                  /\ UNCHANGED wrapperVars
     ELSE /\ hook' = h
          /\ UNCHANGED << memoryCache, localStorage, sets, lastSet, lastGet >>
          /\ UNCHANGED wrapperVars
  /\ UNCHANGED << since, probe >>

\* The call id rejects with error.
Rejects(id, error) ==
  /\ id \in hook.pending
  /\ hook' = caught([ hook EXCEPT !.pending = @ \ {id},
                                  !.last = [ id |-> id, how |-> "rejected" ] ], id,
                    extractErrorMessage(normalizeError(error)))
  /\ UNCHANGED << memoryCache, localStorage, sets, lastSet, lastGet, since, probe >>
  /\ UNCHANGED wrapperVars

(***************************************************************************)
(* Specifications of the wrapper.  The actions are the same in all of      *)
(* them; a profile names the inputs the environment draws from: the        *)
(* descriptors, options and signals callers pass to request() and the      *)
(* answers of the transport.                                               *)
(***************************************************************************)
Profile(descs, opts, sigs, responses, errors) ==
  [ descs |-> descs, opts |-> opts, sigs |-> sigs, responses |-> responses,
    errors |-> errors ]

WrapperNext(P) ==
  \/ \E c \in Calls, cfg \in P.descs, opts \in P.opts, sig \in P.sigs :
        Request(c, cfg, opts, sig) /\ UNCHANGED facade
  \/ \E c \in Calls : Cleanup(c)
  \/ \E c \in Calls, response \in P.responses : TransportResponds(c, response)
  \/ \E c \in Calls, error \in P.errors : TransportFails(c, error)
  \/ \E c \in Calls : Wake(c)
  \/ \E c \in Calls : Abort(c)
  \/ Tick

OkResponse(p) == Response(200, Envelope(FALSE, "success", TRUE, p, "", ""))
Http500 == AxiosError(TRUE, 500, "", TRUE, "", "")
Http404 == AxiosError(TRUE, 404, "Comic not found", TRUE, "", "")

\* Concurrent callers: deduplication on and off, live and aborted signals.
DedupProfile ==
  Profile({ Descriptor("get", "/detail/a", "", ""),
            Descriptor("get", "/detail/a", "{page:1}", "") },
          { Options(MaxRetries, RetryDelay, d, FALSE) : d \in BOOLEAN },
          {"live", "aborted"},
          { OkResponse(p) : p \in Payloads },
          { Http500, Http404 })

\* One endpoint, every answer of the transport, rate limiting on.
RetryProfile ==
  Profile({ Descriptor("get", "/detail/a", "", "") },
          { Options(r, RetryDelay, TRUE, TRUE) : r \in 0..MaxRetries },
          {"none", "live", "aborted"},
          TransportResponses,
          TransportErrors)

\* Several endpoints, with and without a configured pattern; rate limiting on
\* and off.
LimitProfile ==
  Profile({ Descriptor("get", "/detail/a", "", ""),
            Descriptor("get", "/detail/b", "", ""),
            Descriptor("get", "/genre", "", "") },
          { Options(MaxRetries, RetryDelay, TRUE, l) : l \in BOOLEAN },
          {"live", "aborted"},
          { OkResponse("p1") },
          { Http500 })

(***************************************************************************)
(* The functions of the error helpers and of the wrapper that take a value *)
(* and return one, applied on their own to every value of a finite set.    *)
(***************************************************************************)
NoResult == [ none |-> TRUE ]

Probe(fn, arg) ==
  [ fn |-> fn, origin |-> arg, arg |-> arg, done |-> FALSE, again |-> FALSE,
    result |-> NoResult ]

NoProbe == Probe("", NoResult)

\* Error objects as callers may hand them over: transformed errors, raw
\* errors, standardized errors, and objects that are none of these.
RawErrors ==
  { ErrorObject(status, type, message, statusCode, isNetworkError) :
      status \in {0, StatusError, 400, 401, 404, 429, 500, 503},
      type \in {"", "not_found", "custom"},
      message \in {"", "Comic not found", "Keyword is required", "Internal error",
                   "Value must be positive", "timeout of 10000ms exceeded",
                   "Endpoint not found", MsgKomik, MsgTimeout},
      statusCode \in {0, 404},
      isNetworkError \in BOOLEAN }
  \cup { NullError }

Returns(fn, value) ==
  /\ probe.fn = fn
  /\ ~probe.done
  /\ probe' = [ probe EXCEPT !.done = TRUE, !.result = value ]
  /\ UNCHANGED << wrapperVars, memoryCache, localStorage, sets, lastSet,
                  lastGet, since, hook >>

Normalize == Returns("normalizeError", normalizeError(probe.arg))

\* The result of normalizeError handed to normalizeError again.
Renormalize ==
  /\ probe.fn = "normalizeError"
  /\ probe.done
  /\ ~probe.again
  /\ probe' = [ probe EXCEPT !.arg = probe.result, !.again = TRUE,
                             !.result = normalizeError(probe.result) ]
  /\ UNCHANGED << wrapperVars, memoryCache, localStorage, sets, lastSet,
                  lastGet, since, hook >>

\* Failures of the transport: those of the requests above, and every failure
\* without a response, with the request sent or not.
AxiosErrors ==
  TransportErrors
  \cup { AxiosError(FALSE, 0, "", hasRequest, code, message) :
           hasRequest \in BOOLEAN,
           code \in {"", "ECONNABORTED", "ERR_NETWORK"},
           message \in {"", "Network Error", "timeout of 10000ms exceeded"} }

Transform == Returns("transformError", transformError(probe.arg))

\* Responses with every shape of envelope: void, without a status, with the
\* status "success" or another, with and without data, message, other fields.
Envelopes ==
  { Response(200, Envelope(FALSE, status, data # "", data, message, rest)) :
      status \in {"", "success", "error", "fail"},
      data \in {"", "p1"},
      message \in {"", "Comic not found"},
      rest \in {"", "p2"} }
  \cup { Response(200, Envelope(TRUE, "", FALSE, "", "", "")) }

Validate == Returns("validateResponse", validateResponse(probe.arg))

Classify == Returns("classifyErrorType", classifyErrorType(probe.arg))

vars == << wrapperVars, cacheVars >>

Init == WrapperInit(MaxCalls) /\ CacheInit /\ probe = NoProbe /\ hook = NoHook

InitPure ==
  /\ WrapperInit(MaxCalls)
  /\ CacheInit
  /\ probe \in { Probe("normalizeError", e) : e \in RawErrors }
              \cup { Probe("classifyErrorType", e) : e \in RawErrors }
              \cup { Probe("transformError", e) : e \in AxiosErrors }
              \cup { Probe("validateResponse", r) : r \in Envelopes }
  /\ hook = NoHook

NextPure ==
  \/ Normalize
  \/ Renormalize
  \/ Classify
  \/ Transform
  \/ Validate

SpecPure == InitPure /\ [][NextPure]_vars
Next == WrapperNext(DedupProfile)
Spec == Init /\ [][Next]_vars

NextRetry == WrapperNext(RetryProfile)
SpecRetry == Init /\ [][NextRetry]_vars

\* sleep(ms), lines 206-208: the timer of a waiting call is not yet due and
\* time passes, also beyond the hour at which the callers stop arriving.
Sleeping ==
  /\ \E c \in Calls : pc[c] = "sleeping" /\ now < wakeAt[c]
  /\ TickUntil(now + 1)

\* Retrying callers under a scheduler that runs every enabled continuation:
\* each transport attempt is answered, each timer fires, each queued microtask
\* runs.
LiveProfile ==
  Profile({ Descriptor("get", "/detail/a", "", "") },
          { Options(r, RetryDelay, TRUE, TRUE) : r \in 0..MaxRetries },
          {"none", "live", "aborted"},
          { OkResponse("p1"),
            Response(200, Envelope(FALSE, "error", FALSE, "", "Comic not found", "")) },
          { Http500, Http404 })

NextLive ==
  \/ WrapperNext(LiveProfile)
  \/ Sleeping

Answered(c) ==
  \/ \E response \in LiveProfile.responses : TransportResponds(c, response)
  \/ \E error \in LiveProfile.errors : TransportFails(c, error)

SpecLive ==
  /\ Init
  /\ [][NextLive]_vars
  /\ \A c \in Calls : WF_vars(Answered(c))
  /\ \A c \in Calls : WF_vars(Wake(c))
  /\ \A c \in Calls : WF_vars(Cleanup(c))
  /\ WF_vars(Sleeping)

\* Responses with a 2xx status whose envelope reports a failure, with the
\* messages the classification tells apart, and no message at all.
FailureEnvelopes ==
  { Response(http, Envelope(FALSE, "error", FALSE, "", message, "")) :
      http \in {200, 201},
      message \in {"", "Comic not found", "Page is required", "Internal error",
                   "timeout of 10000ms exceeded"} }

EnvelopeProfile ==
  Profile({ Descriptor("get", "/detail/a", "", "") },
          { Options(r, RetryDelay, TRUE, FALSE) : r \in 0..MaxRetries },
          {"live", "aborted"},
          FailureEnvelopes \cup { OkResponse("p1") },
          { Http500 })

NextEnvelope == WrapperNext(EnvelopeProfile)
SpecEnvelope == Init /\ [][NextEnvelope]_vars

NextLimit == WrapperNext(LimitProfile)
SpecLimit == Init /\ [][NextLimit]_vars

\* Callers that go through the facade, with every argument list of every
\* method; they leave the options to the defaults and pass no signal.
FacadeProfile ==
  Profile(FacadeDescs,
          { Options(MaxRetries, RetryDelay, FALSE, TRUE) },
          {"none"},
          { OkResponse("p1") },
          { Http500 })

\* No signal is passed in this specification, so that nothing is cancelled.
FacadeNext(P) ==
  \/ \E c \in Calls, method \in Methods, opts \in P.opts, sig \in P.sigs :
        \E args \in Arguments(method) : Invoke(c, method, args, opts, sig)
  \/ \E c \in Calls, response \in P.responses : TransportResponds(c, response)
  \/ \E c \in Calls, error \in P.errors : TransportFails(c, error)
  \/ \E c \in Calls : Wake(c)
  \/ Tick

\* Requests that are retried up to BackoffRetries times, with the base delay
\* RetryDelay and, for one retry less, twice that; the clock runs long enough
\* for all their waits. No signal is passed and nothing is rate limited.
BackoffProfile ==
  Profile({ Descriptor("get", "/detail/a", "", ""),
            Descriptor("get", "/genre", "", "") },
          { Options(BackoffRetries, RetryDelay, TRUE, FALSE),
            Options(BackoffRetries - 1, 2 * RetryDelay, TRUE, FALSE) },
          {"none"},
          { OkResponse("p1") },
          { Http500 })

BackoffNext(P) ==
  \/ \E c \in Calls, cfg \in P.descs, opts \in P.opts, sig \in P.sigs :
        Request(c, cfg, opts, sig) /\ UNCHANGED facade
  \/ \E c \in Calls, response \in P.responses : TransportResponds(c, response)
  \/ \E c \in Calls, error \in P.errors : TransportFails(c, error)
  \/ \E c \in Calls : Wake(c)
  \/ TickUntil(BackoffTime)

NextBackoff == BackoffNext(BackoffProfile)
SpecBackoff == Init /\ [][NextBackoff]_vars

NextFacade == FacadeNext(FacadeProfile)
SpecFacade == Init /\ [][NextFacade]_vars

\* What an earlier session may have left in localStorage when the page is
\* loaded: per key nothing, or a value with its expiry time.
StoredTimes == {0, 1, 3}

Stored ==
  [ CacheKeys -> { NoItem } \cup { Item(TRUE, JSONstringify("v1"), TRUE, t) :
                                     t \in StoredTimes } ]

\* The inputs the callers of the cache draw from.
CacheProfile(keys, data, ttls, quotas, patterns) ==
  [ keys |-> keys, data |-> data, ttls |-> ttls, quotas |-> quotas,
    patterns |-> patterns ]

\* The cache on its own: every operation of its interface, and time.
CacheNext(P) ==
  \/ \E key \in P.keys, data \in P.data, ttl \in P.ttls, quota \in P.quotas :
        set(key, data, ttl, quota) /\ UNCHANGED << since, probe, hook >>
  \/ \E key \in P.keys : get(key) /\ UNCHANGED << since, probe, hook >>
  \/ \E key \in P.keys : remove(key) /\ UNCHANGED << since, probe, hook >>
  \/ clear /\ UNCHANGED << since, probe, hook >>
  \/ \E sweep \in BOOLEAN : cleanup(sweep) /\ UNCHANGED << since, probe, hook >>
  \/ \E pattern \in P.patterns : invalidatePattern(pattern) /\ UNCHANGED << since, probe, hook >>
  \/ Tick

\* The cache with the history of each key kept in since; of the operations
\* that work on all keys there is clear.
TracedNext(P) ==
  \/ \E key \in P.keys, data \in P.data, ttl \in P.ttls, quota \in P.quotas :
        set(key, data, ttl, quota) /\ since' = Written(key, data) /\ UNCHANGED << probe, hook >>
  \/ \E key \in P.keys : get(key) /\ since' = Got(key) /\ UNCHANGED << probe, hook >>
  \/ \E key \in P.keys : remove(key) /\ since' = Touched({key}) /\ UNCHANGED << probe, hook >>
  \/ clear /\ since' = Touched(CacheKeys) /\ UNCHANGED << probe, hook >>
  \/ Tick

\* Two keys that fill the memory tier, every time to live; writes to
\* localStorage that succeed, fail, and fail again in the retry.
ExpiryProfile ==
  CacheProfile({"detail_a", "genre"}, CachedData, TTLs,
               { <<"ok", "ok">>, <<"error", "ok">>, <<"quota_data", "ok">>,
                 <<"quota_time", "quota_data">> },
               Patterns)

\* The number of set() calls made on a page loaded over a used localStorage.
QuotaSets == 1

\* The history of a key after a set(): the data, how the first write to
\* localStorage ended, and how many entries localStorage held then, expired
\* ones among them or not.
Attempted(key, data, quota) ==
  [ since EXCEPT ![key] =
      Since(data, [ first |-> quota[1],
                    timed |-> Cardinality({ k \in CacheKeys : localStorage[k].hasTime }),
                    expired |-> \E k \in CacheKeys :
                                  localStorage[k].hasTime /\ now > localStorage[k].time ]) ]

\* The cache of a page loaded over the localStorage of an earlier session:
\* writes that run into the quota, and the cleanup timer.
QuotaNext(P) ==
  \/ \E key \in P.keys, data \in P.data, ttl \in P.ttls, quota \in P.quotas :
        /\ sets < QuotaSets
        /\ set(key, data, ttl, quota)
        /\ since' = Attempted(key, data, quota)
        /\ UNCHANGED << probe, hook >>
  \/ \E sweep \in BOOLEAN : cleanup(sweep) /\ UNCHANGED << since, probe, hook >>
  \/ Tick

QuotaProfile == CacheProfile({"detail_a", "read_a"}, {"v1"}, {1}, Quotas, {})

InitQuota ==
  /\ WrapperInit(MaxCalls)
  /\ memoryCache = <<>>
  /\ localStorage \in Stored
  /\ sets = 0
  /\ lastSet = [ k \in CacheKeys |-> NoSet ]
  /\ lastGet = NoGet
  /\ since = [ k \in CacheKeys |-> NoData ]
  /\ probe = NoProbe
  /\ hook = NoHook

NextQuota == QuotaNext(QuotaProfile)
SpecQuota == InitQuota /\ [][NextQuota]_vars

\* A component with every choice of options, over an empty localStorage or
\* one that holds its key, fresh or about to expire.
InitHook ==
  /\ WrapperInit(MaxCalls)
  /\ memoryCache = <<>>
  /\ localStorage \in
       { [ k \in CacheKeys |-> IF k = HookKey THEN item ELSE NoItem ] :
           item \in { NoItem, Item(TRUE, JSONstringify("v1"), TRUE, 0),
                      Item(TRUE, JSONstringify("v1"), TRUE, 3) } }
  /\ sets = 0
  /\ lastSet = [ k \in CacheKeys |-> NoSet ]
  /\ lastGet = NoGet
  /\ since = [ k \in CacheKeys |-> NoData ]
  /\ probe = NoProbe
  /\ hook \in { Hook(skip, enableCache) : skip \in BOOLEAN, enableCache \in BOOLEAN }

HookErrors == { transformError(Http500), CancelledError }

NextHook ==
  \/ Mount
  \/ DependenciesChange
  \/ refetch
  \/ Unmount
  \/ \E id \in 1..MaxFetches, hasData \in BOOLEAN, quota \in { <<"ok", "ok">>, <<"quota_data", "quota_data">> } :
        Resolves(id, ApiResponse(hasData, IF hasData THEN "v1" ELSE ""), quota)
  \/ \E id \in 1..MaxFetches, error \in HookErrors : Rejects(id, error)
  \/ Tick

SpecHook == InitHook /\ [][NextHook]_vars

NextCache == CacheNext(ExpiryProfile)
SpecCache == Init /\ [][NextCache]_vars

\* One key more than the memory tier holds; every write to localStorage
\* succeeds, so that a key evicted from memory can be read back from there.
EvictProfile ==
  CacheProfile({"detail_a", "detail_b", "genre"}, {"v1"}, TTLs, { <<"ok", "ok">> },
               {"detail"})

NextEvict == CacheNext(EvictProfile)
SpecEvict == Init /\ [][NextEvict]_vars

\* Two keys and both kinds of data; writes to localStorage that succeed and
\* writes that fail with an error other than an exceeded quota.
TTLProfile ==
  CacheProfile({"detail_a", "genre"}, CachedData, TTLs,
               { <<"ok", "ok">>, <<"error", "ok">> }, {"detail"})

NextTTL == TracedNext(TTLProfile)
SpecTTL == Init /\ [][NextTTL]_vars

\* Two keys that fill the memory tier and both kinds of data; every write to
\* localStorage succeeds, so that a key that has left memory is still there.
TierProfile ==
  CacheProfile({"detail_a", "genre"}, CachedData, TTLs, { <<"ok", "ok">> }, {"detail"})

NextTier == CacheNext(TierProfile)
SpecTier == Init /\ [][NextTier]_vars

\* The same callers with writes to localStorage that succeed, that fail, and
\* that succeed in the retry after an exceeded quota.
WriteProfile ==
  CacheProfile({"detail_a", "genre"}, CachedData, TTLs,
               { <<"ok", "ok">>, <<"error", "ok">>, <<"quota_data", "ok">> },
               {"detail"})

NextWrite == CacheNext(WriteProfile)
SpecWrite == Init /\ [][NextWrite]_vars

(***************************************************************************)
(* Properties.                                                             *)
(***************************************************************************)
Issued(c) == pc[c] \notin {"idle", "unused"}

\* What the caller of request() number c sees: the promise request() returned.
Outcome(c) == promise[via[c]]

IsNormalized(error) ==
  error.status = StatusError /\ error.type \in ERROR_TYPES /\ error.message # ""

RetryableTypes == {"network", "timeout", "server_error", "rate_limit"}

\* C1: request() calls with deduplication that are issued while a call with the
\* same key is in flight perform no network attempt of their own and settle
\* with the outcome of that call: the same value or the same error.
C1_SharedOutcome ==
  \A c \in Calls : \A d \in inflightAtIssue[c] :
    /\ attempts[c] = 0
    /\ Outcome(c) = promise[d]
    /\ inflightAtIssue[c] = {d}

C1_Witness ==
  \E c \in Calls : \E d \in inflightAtIssue[c] :
    /\ promise[d].state = "rejected"
    /\ attempts[d] = options[d].retries + 1
    /\ Outcome(c).state = "rejected"

\* C2: when every call uses deduplication, at most one network attempt is
\* outstanding per key, and a deduplicated call in flight always owns the
\* table entry of its key (the insert is never pending across a step).
AllDeduplicated == \A c \in Calls : Issued(c) => options[c].enableDeduplication

C2_OneAttemptPerKey ==
  AllDeduplicated =>
    /\ \A k \in Keys :
         Cardinality({ c \in Calls : pc[c] = "attempting"
                                     /\ getRequestKey(config[c]) = k }) <= 1
    /\ \A c \in Calls :
         InFlight(c) => pendingRequests[getRequestKey(config[c])] = c

C2_Witness ==
  /\ AllDeduplicated
  /\ \E c, d \in Calls :
       /\ pc[c] = "attempting"
       /\ pc[d] = "joined"
       /\ config[c] = config[d]
       /\ promise[c].state = "pending"

\* C3: a table entry exists only while the call that created it is unsettled,
\* and a request() issued after that call has settled gets a promise of its
\* own instead of the settled one.
C3_EntryUntilSettled ==
  /\ \A c \in Calls :
       (InFlight(c) /\ options[c].enableDeduplication)
         => pendingRequests[getRequestKey(config[c])] = c
  /\ \A c \in Calls :
       pc[c] = "joined" => via[c] \in inflightAtIssue[c]

\* C4: get(k) never returns an expired entry: when the most recent set(k, v,
\* ttl) happened at t0, a get(k) at a time later than t0 + ttl returns null.
C4_NeverExpired ==
  ( /\ lastGet.called
    /\ lastSet[lastGet.key].called
    /\ lastGet.at > lastSet[lastGet.key].at + lastSet[lastGet.key].ttl )
  => lastGet.data = Null

\* C11: once the signal passed with a request has been aborted, the retry loop
\* starts no further attempt for it, and the request ends rejected with the
\* cancellation error.
C11_NoAttemptAfterTrigger ==
  \A c \in Calls :
    (triggered[c].done /\ via[c] = c) =>
      /\ attempts[c] = triggered[c].attempts
      /\ pc[c] = "settled" =>
           (promise[c].state = "rejected" /\ promise[c].reason = CancelledError)

\* C12: when a signal is aborted while its request is in flight, the shared
\* result ends rejected for every caller of that request and the table entry
\* of the key is removed (stated of the state in which the request has
\* settled).
C12_TriggerRejectsAll ==
  \A c \in Calls :
    ( /\ triggered[c].done
      /\ triggered[c].at \in {"attempting", "sleeping", "joined"}
      /\ pc[via[c]] = "settled" )
    => /\ \A d \in Calls :
            (Issued(d) /\ via[d] = via[c]) => Outcome(d).state = "rejected"
       /\ pendingRequests[getRequestKey(config[c])] # via[c]

\* What the facade's contract accepts: a page is a positive whole number, or
\* the numeral of one, not above the maximum; an endpoint or a genre is a
\* string that is not blank; a keyword has at least two characters.
IsNumeral(text) == text # <<>> /\ \A i \in 1..Len(text) : IsDigit(text[i])

WholeNumber(v) ==
  CASE v.type = "number" -> v.tenths % 10 = 0
    [] v.type = "string" -> IsNumeral(v.text)
    [] OTHER -> FALSE

PageNumber(v) == IF v.type = "string" THEN DigitsValue(v.text) ELSE v.tenths \div 10

ValidPage(v) ==
  \/ v.type = "undefined"
  \/ WholeNumber(v) /\ PageNumber(v) >= 1 /\ PageNumber(v) <= MAX_PAGE

ValidName(v) == v.type = "string" /\ Trim(v.text) # <<>>

ValidArguments(i) ==
  CASE i.method = "getTerbaru" -> ValidPage(i.args[1])
    [] i.method = "search" ->
         ValidName(i.args[1]) /\ Len(Trim(i.args[1].text)) >= MinKeywordLength
    [] i.method = "getGenreComics" -> ValidName(i.args[1]) /\ ValidPage(i.args[2])
    [] OTHER -> ValidName(i.args[1])

Invoked(c) == facade[c].method # ""

\* The call was turned down by the facade itself.
RejectedByFacade(c) == Invoked(c) /\ config[c] = NoDescriptor

Untouched(c) ==
  /\ Outcome(c).state = "rejected"
  /\ attempts[c] = 0
  /\ ~check[c].consulted
  /\ \A k \in Keys : pendingRequests[k] # c

\* C13: a facade method called with an invalid parameter returns a rejected
\* promise, and the call makes no network attempt, records no rate-limit
\* timestamp and creates no entry in the table of in-flight requests.
C13_InvalidNeverReachesWrapper ==
  \A c \in Calls : (Invoked(c) /\ ~ValidArguments(facade[c])) => Untouched(c)

\* C14: the rejection the facade returns for an invalid parameter is a
\* Normalized Error of kind VALIDATION.
C14_RejectionIsValidationError ==
  \A c \in Calls :
    RejectedByFacade(c) =>
      /\ Outcome(c).state = "rejected"
      /\ IsNormalized(Outcome(c).reason)
      /\ Outcome(c).reason.type = "validation"

\* The keys of the memory tier in insertion order.
MemoryKeys(memory) == [ i \in 1..Len(memory) |-> memory[i].key ]

KeySet(memory) == { memory[i].key : i \in 1..Len(memory) }

\* C15: the memory tier never holds more than maxCacheSize entries, whatever
\* sequence of set, get, remove, invalidatePattern, clear and cleanup led to it.
C15_MemoryBounded == Len(memoryCache) <= MaxCacheSize

\* Every key has been written, and a get has put a key back from localStorage
\* into a memory tier that is full.
C15_Witness ==
  /\ \A k \in EvictProfile.keys : lastSet[k].called
  /\ Len(memoryCache) = MaxCacheSize
  /\ lastGet.from = "localStorage"
  /\ memoryCache[Len(memoryCache)].key = lastGet.key

\* C16: when the memory tier is full and a key that is not in it is inserted
\* (by set, or by a get that reads it back from localStorage), exactly one
\* entry leaves the tier, the one inserted earliest, whichever entry was read
\* last; the other entries stay as they are and the new key comes last.
C16_EvictsFirstInserted ==
  [][ \A k \in CacheKeys :
        ( /\ Len(memoryCache) >= MaxCacheSize
          /\ k \notin KeySet(memoryCache)
          /\ k \in KeySet(memoryCache') )
        => /\ MemoryKeys(memoryCache') = Append(Tail(MemoryKeys(memoryCache)), k)
           /\ \A i \in 1..(Len(memoryCache) - 1) : memoryCache'[i] = memoryCache[i + 1]
    ]_vars

\* Capacity + 1 distinct keys were written once each at time 0; the key written
\* first was read from memory after that and is the one that has left the
\* memory tier (it is still in localStorage, so that it was not removed).
C16_Witness ==
  \E first \in CacheKeys :
    /\ now = 0
    /\ sets = MaxCacheSize + 1
    /\ \A k \in EvictProfile.keys : lastSet[k].called
    /\ Len(memoryCache) = MaxCacheSize
    /\ first \notin KeySet(memoryCache)
    /\ localStorage[first].hasData
    /\ lastGet.key = first /\ lastGet.from = "memory"

\* C17: a set() of a key that is already in the memory tier removes no other
\* key from it. A step of set() that brings no new key into the tier wrote a
\* key that was there; such a step leaves every key of the tier in it.
C17_RefreshEvictsNothing ==
  [][ (sets' = sets + 1 /\ KeySet(memoryCache') \subseteq KeySet(memoryCache))
        => KeySet(memoryCache) \subseteq KeySet(memoryCache')
    ]_vars

\* The last get was of key k, and it is the only thing done to k since the
\* most recent set(k, v, ttl).
FirstGetSinceSet(k) ==
  lastGet.called /\ lastGet.key = k /\ lastSet[k].called /\ since[k].then = "read"

\* C18: a get(k) that follows set(k, v, ttl) with no other operation on k in
\* between returns v when less than ttl has passed since the set, and null when
\* more than ttl has passed.
C18_ValueUntilExpiry ==
  \A k \in CacheKeys :
    FirstGetSinceSet(k) =>
      /\ lastGet.at < lastSet[k].at + lastSet[k].ttl => lastGet.data = since[k].data
      /\ lastGet.at > lastSet[k].at + lastSet[k].ttl => lastGet.data = Null

\* What get would find for a key in each tier, and the expiry kept there.
InMemory(memory, k) ==
  IF MemoryHas(memory, k) THEN <<MemoryEntry(memory, k)>> ELSE <<>>

Gone(memory, storage, k) ==
  /\ getFromMemory(memory, k, now).data = Null
  /\ getFromLocalStorage(storage, k, now).data = Null

\* C19: invalidatePattern(p) removes every key that matches p from both tiers,
\* so that get finds it in neither, and leaves the entries of every key that
\* does not match p as they were, value and expiry, in both tiers.
C19_InvalidatesOnlyMatches ==
  [][ \A p \in Patterns :
        invalidatePattern(p) =>
          \A k \in CacheKeys :
            IF RegexTest(p, k, FALSE)
            THEN Gone(memoryCache', localStorage', k)
            ELSE /\ InMemory(memoryCache', k) = InMemory(memoryCache, k)
                 /\ localStorage'[k] = localStorage[k]
    ]_vars

\* C20: the timer set after the failed attempt with index i is due after
\* retryDelay * 2^i, and the next attempt does not start before it is due, so
\* that attempt k + 1 starts no earlier than retryDelay * (2^k - 1) after the
\* request was made.
C20_ExponentialBackoff ==
  [][ \A c \in Calls :
        /\ (pc[c] = "attempting" /\ pc'[c] = "sleeping")
             => wakeAt'[c] - now = options[c].retryDelay * 2^attempt[c]
        /\ (pc[c] = "sleeping" /\ pc'[c] = "attempting")
             => /\ now >= wakeAt[c]
                /\ attempt'[c] = attempt[c] + 1
                /\ now - check[c].at >= options[c].retryDelay * (2^attempt'[c] - 1)
    ]_vars

\* A request whose attempts 0, 1 and 2 failed at once starts attempt 3 exactly
\* retryDelay * (1 + 2 + 4) after it was made.
C20_Witness ==
  \E c \in Calls :
    /\ pc[c] = "attempting"
    /\ attempt[c] = BackoffRetries
    /\ attempts[c] = BackoffRetries + 1
    /\ now - check[c].at = options[c].retryDelay * (2^BackoffRetries - 1)

\* The function fn has been applied to its argument.
Applied(fn) == probe.fn = fn /\ probe.done

\* C21: normalizeError is idempotent: normalizing the result of a
\* normalization returns that result, and an error that is already in the
\* standardized format is returned unchanged.
C21_NormalizeIdempotent ==
  Applied("normalizeError") =>
    /\ probe.again => probe.result = probe.arg
    /\ (probe.arg # NullError /\ IsNormalized(probe.arg)) => probe.result = probe.arg

\* A raw error, whose normalization differs from it, has been normalized, and
\* the result has been normalized again.
C21_Witness ==
  /\ Applied("normalizeError")
  /\ probe.again
  /\ probe.origin # NullError
  /\ probe.origin.status = 500
  /\ probe.origin # probe.arg
  /\ probe.result.type = "server_error"

\* The phrases of a message that make an error a validation error, and those
\* that make it a not-found error.
ValidationPhrase(m) ==
  Phrases(m) \cap {"must be", "required", "lc:page is required", "lc:keyword",
                   "lc:endpoint"} # {}

NotFoundPhrase(m) == Phrases(m) \cap {"lc:not found", "lc:tidak ditemukan"} # {}

\* C22: an error with an HTTP status (and no network failure) is classified
\* by the status, whatever its message: 404 not_found, 429 rate_limit, 500 and
\* above server_error, 400 validation.  With any other status, or none, the
\* message decides: a validation phrase gives validation, else a not-found
\* phrase gives not_found, else the error is unknown.
C22_StatusBeforeMessage ==
  (Applied("classifyErrorType") /\ probe.arg # NullError /\ ~probe.arg.isNetworkError) =>
    LET status == probe.arg.status
        message == probe.arg.message
    IN probe.result =
         CASE status = 404 -> "not_found"
           [] status = 429 -> "rate_limit"
           [] status >= 500 -> "server_error"
           [] status = 400 -> "validation"
           [] OTHER -> IF ValidationPhrase(message) THEN "validation"
                       ELSE IF NotFoundPhrase(message) THEN "not_found"
                       ELSE "unknown"

\* An error with status 404 whose message has a validation phrase has been
\* classified.
C22_Witness ==
  /\ Applied("classifyErrorType")
  /\ probe.arg # NullError
  /\ ~probe.arg.isNetworkError
  /\ probe.arg.status = 404
  /\ ValidationPhrase(probe.arg.message)

\* The cause of a failure of the transport mentions a timeout.
MentionsTimeout(error) ==
  error.code = "ECONNABORTED" \/ Includes(error.message, "timeout")

\* C23: a failure of the transport with the request sent and no response (so
\* no status) is a network error, or a timeout error when its cause mentions
\* a timeout.
C23_NoResponseIsNetworkOrTimeout ==
  (Applied("transformError") /\ ~probe.arg.hasResponse /\ probe.arg.hasRequest) =>
    probe.result.type = IF MentionsTimeout(probe.arg) THEN "timeout" ELSE "network"

Expired(storage) == { k \in CacheKeys : storage[k].hasTime /\ now > storage[k].time }

\* The keys with a stored time, and the sets of them that are the oldest
\* quarter (rounded down) by that time.
Timed(storage) == { k \in CacheKeys : storage[k].hasTime }

IsOldestQuarter(S, storage) ==
  /\ S \subseteq Timed(storage)
  /\ Cardinality(S) = Cardinality(Timed(storage)) \div 4
  /\ \A a \in S, b \in Timed(storage) \ S : storage[a].time <= storage[b].time

\* C25: a set() whose write to localStorage fails on the quota makes one
\* cleanup pass, which removes every expired entry or, when none is expired,
\* the oldest quarter of the entries, and nothing else; then the write is
\* retried once: when the retry succeeds the new item is stored, when it fails
\* the failure is swallowed.  Either way the memory tier holds the new value.
C25_QuotaCleanupThenRetry ==
  [][ \A key \in QuotaProfile.keys, data \in QuotaProfile.data,
         ttl \in QuotaProfile.ttls,
         quota \in { q \in Quotas : q[1] \in {"quota_data", "quota_time"} } :
        set(key, data, ttl, quota)
        => LET others == CacheKeys \ {key}
               expired == Expired(localStorage)
               removed == { k \in others : localStorage[k] # NoItem
                                           /\ localStorage'[k] = NoItem }
               expiresAt == now + (IF ttl # 0 THEN ttl ELSE DefaultTTL)
           IN /\ \A k \in others : localStorage'[k] \in { localStorage[k], NoItem }
              /\ expired # {} => removed = expired \ {key}
              /\ expired = {} =>
                   \E S \in SUBSET CacheKeys :
                      /\ IsOldestQuarter(S, localStorage)
                      /\ removed = S \ {key}
              /\ quota[2] = "ok" =>
                   localStorage'[key] = Item(TRUE, JSONstringify(data), TRUE, expiresAt)
              /\ quota[2] # "ok" =>
                   localStorage'[key] # Item(TRUE, JSONstringify(data), TRUE, expiresAt)
                   \/ localStorage'[key] = localStorage[key]
              /\ MemoryHas(memoryCache', key)
              /\ MemoryEntry(memoryCache', key).data = data
    ]_vars

\* The quota was hit with nothing expired among four stored entries: the
\* oldest of them is gone, the retry has stored the new item, and the memory
\* tier holds the value.
C25_Witness ==
  /\ now = 0
  /\ sets = 1
  /\ since["detail_a"] # NoData
  /\ since["detail_a"].then.first = "quota_data"
  /\ since["detail_a"].then.timed = 4
  /\ ~since["detail_a"].then.expired
  /\ Cardinality(Timed(localStorage)) = 3
  /\ localStorage["detail_a"] = Item(TRUE, JSONstringify("v1"), TRUE, 1)
  /\ MemoryHas(memoryCache, "detail_a")

\* C26: a run of cleanup() removes every expired entry of the memory tier
\* and, when it sweeps localStorage, every expired entry there; it removes no
\* entry of either tier that has not expired.
C26_CleanupRemovesOnlyExpired ==
  [][ \A sweep \in BOOLEAN :
        cleanup(sweep) =>
          /\ memoryCache' =
               SelectSeq(memoryCache, LAMBDA e : ~(e.expiresAt # 0 /\ now > e.expiresAt))
          /\ \A k \in CacheKeys :
               IF sweep /\ k \in Expired(localStorage)
               THEN localStorage'[k] = NoItem
               ELSE localStorage'[k] = localStorage[k]
    ]_vars

C30_CacheWriteOnlyAfterSuccess ==
  [][ /\ sets' # sets =>
            \E id \in hook.pending :
               /\ id \notin hook'.pending
               /\ hook'.last = [ id |-> id, how |-> "resolved" ]
               /\ hook.mountedRef
               /\ id \notin hook.aborted
               /\ hook'.shown = Shown("call", id)
      /\ ( /\ hook'.last # hook.last
           /\ \/ hook'.last.how # "resolved"
              \/ hook'.last.id \in hook.aborted
              \/ ~hook.mountedRef )
         => UNCHANGED << memoryCache, localStorage >>
    ]_vars

\* A call that was aborted by the unmount has resolved with data after it,
\* and nothing has been written.
C30_Witness ==
  /\ ~hook.alive
  /\ hook.enableCache
  /\ hook.last.how = "resolved"
  /\ hook.last.id \in hook.aborted
  /\ sets = 0

\* Neither tier holds anything of key k.
Absent(memory, storage, k) == ~MemoryHas(memory, k) /\ storage[k] = NoItem

\* C28: remove(k) leaves k in neither tier and leaves the entries of every
\* other key, in both tiers, as they were; a key that is in neither tier
\* stays so until a set() of it, and a get() of it returns null.
C28_RemovedUntilSet ==
  [][ \A k \in CacheKeys :
        /\ remove(k) =>
              /\ Absent(memoryCache', localStorage', k)
              /\ \A j \in CacheKeys \ {k} :
                    /\ localStorage'[j] = localStorage[j]
                    /\ MemoryHas(memoryCache', j) = MemoryHas(memoryCache, j)
                    /\ MemoryHas(memoryCache, j) =>
                         MemoryEntry(memoryCache', j) = MemoryEntry(memoryCache, j)
        /\ Absent(memoryCache, localStorage, k) =>
              /\ get(k) => lastGet'.data = Null
              /\ ~Absent(memoryCache', localStorage', k) =>
                    \E data \in CachedData, ttl \in TTLs, quota \in Quotas :
                       set(k, data, ttl, quota)
    ]_vars

\* Two keys were set, one of them is in neither tier again before it expired
\* (remove deleted it) and a get of it has returned null; the other key is
\* still in both tiers.
C28_Witness ==
  /\ now = 0
  /\ sets = 2
  /\ lastSet["genre"].called
  /\ lastSet["detail_a"].called
  /\ Absent(memoryCache, localStorage, "genre")
  /\ MemoryHas(memoryCache, "detail_a")
  /\ localStorage["detail_a"].hasData
  /\ lastGet.called /\ lastGet.key = "genre" /\ lastGet.data = Null

\* The page argument of a call of getTerbaru or getGenreComics.
PageArgument(i) == IF i.method = "getTerbaru" THEN i.args[1] ELSE i.args[2]

\* C29: getTerbaru and getGenreComics reach the wrapper (and so the network)
\* only with a page that is a positive whole number of at most MAX_PAGE (or
\* left out, which is page 1); with any other page the call is rejected and
\* makes no network attempt.
C29_PageIsPositiveInteger ==
  \A c \in Calls :
    ( /\ Invoked(c)
      /\ facade[c].method \in {"getTerbaru", "getGenreComics"}
      /\ ~ValidPage(PageArgument(facade[c])) )
    => Untouched(c)

\* The state of the machine of call c: the terminal states are told apart by
\* the promise its caller holds.
Terminal(c) == Issued(c) /\ Outcome(c).state \in {"resolved", "rejected"}

MachineState(c) ==
  IF ~Issued(c) THEN "IDLE"
  ELSE IF Outcome(c).state = "resolved" THEN "SUCCESS"
  ELSE IF Outcome(c).state = "rejected"
       THEN IF Outcome(c).reason = CancelledError THEN "CANCELLED" ELSE "FAILED"
  ELSE IF pc[via[c]] = "sleeping" THEN "RETRY_WAIT"
  ELSE "ATTEMPTING"

\* The transitions of the machine: a call leaves IDLE for ATTEMPTING or, when
\* the gate or the cancellation handle has already decided, for a terminal
\* state; a call that joins an entry enters the machine of that entry where it
\* stands.
Transitions ==
  { <<"IDLE", "ATTEMPTING">>, <<"IDLE", "SUCCESS">>, <<"IDLE", "FAILED">>,
    <<"IDLE", "CANCELLED">>,
    <<"ATTEMPTING", "SUCCESS">>, <<"ATTEMPTING", "FAILED">>,
    <<"ATTEMPTING", "RETRY_WAIT">>,
    <<"RETRY_WAIT", "ATTEMPTING">>, <<"RETRY_WAIT", "CANCELLED">> }

RecordedAfter(c, url) ==
  \E d \in Calls : /\ check[d].recorded
                   /\ config[d].url = url
                   /\ check[d].at > check[c].at

\* The hours at which a later check is made.
LaterTimes == now..(MaxTime + WindowMs)

Stamps(history) == { history[i] : i \in 1..Len(history) }

\* C33: right after a check of endpoint e every timestamp t the list of e
\* holds has t > now - windowMs, and the check adds no timestamp: the list
\* holds timestamps it held before, and the one of the request when it is
\* admitted and recorded.
C33_CheckPrunesOnly ==
  [][\A c \in Calls :
       (pc[c] = "idle" /\ check'[c].consulted) =>
         LET url == config'[c].url
             before == requestHistory[HistoryKey(url)]
             after == requestHistory'[HistoryKey(url)]
             kept == IF check'[c].recorded THEN SubSeq(after, 1, Len(after) - 1)
                     ELSE after
         IN /\ \A t \in Stamps(after) : t > now - getLimitConfig(url).windowMs
            /\ Stamps(kept) \subseteq Stamps(before)
            /\ Len(kept) <= Len(before)
            /\ check'[c].recorded => after = Append(kept, now)]_vars

C33_Witness ==
  \E c, d \in Calls :
    /\ config[c].url = config[d].url
    /\ check[d].recorded /\ check[d].at = 0
    /\ check[c].consulted /\ check[c].at = WindowMs
    /\ requestHistory[config[c].url] = << WindowMs >>

\* The memory tier holds an entry of k that has not expired.
MemoryHit(k) ==
  /\ MemoryHas(memoryCache, k)
  /\ ~(MemoryEntry(memoryCache, k).expiresAt # 0 /\ now > MemoryEntry(memoryCache, k).expiresAt)

\* localStorage holds an entry of k that has not expired.
StorageHit(k) ==
  /\ localStorage[k].hasData /\ localStorage[k].hasTime
  /\ now <= localStorage[k].time

\* What get(k) does: restore tells for which persistent entries the value is
\* put back into memory.
TwoTierRead(k, restore(_)) ==
  /\ MemoryHit(k) =>
       /\ lastGet'.data = MemoryEntry(memoryCache, k).data
       /\ lastGet'.from = "memory"
       /\ localStorage' = localStorage
  /\ (~MemoryHit(k) /\ StorageHit(k)) =>
       LET value == JSONparse(localStorage[k].data) IN
       /\ lastGet'.data = value
       /\ restore(value) =>
            /\ MemoryHas(memoryCache', k)
            /\ MemoryEntry(memoryCache', k).data = value

AnyValue(value) == TRUE
NotNull(value) == value # Null

Succeeds(quota) ==
  \/ quota[1] = "ok"
  \/ quota[1] \in {"quota_data", "quota_time"} /\ quota[2] = "ok"

\* What set(key, data, ttl) leaves behind when its persistent write succeeds;
\* persisted tells what the persistent tier holds for the data.
WriteThrough(key, data, ttl, persisted(_)) ==
  LET expiry == now + (IF ttl # 0 THEN ttl ELSE DefaultTTL) IN
  /\ MemoryHas(memoryCache', key)
  /\ MemoryEntry(memoryCache', key).data = data
  /\ MemoryEntry(memoryCache', key).expiresAt = expiry
  /\ localStorage'[key].hasData /\ localStorage'[key].hasTime
  /\ localStorage'[key].time = expiry
  /\ JSONparse(localStorage'[key].data) = persisted(data)

SameValue(data) == data
JSONValue(data) == JSONparse(JSONstringify(data))

Issues(c) == pc[c] = "idle" /\ pc'[c] # "idle"

\* C36: a request() that finds an in-flight entry for its key joins it
\* whatever the rate limiter would answer: the limiter is neither consulted nor
\* written, so the calls that share one entry add the one timestamp of their
\* owner, and the joining call settles as the owner does.
C36_JoinBypassesLimiter ==
  [][\A c \in Calls :
       LET key == getRequestKey(config'[c])
           owner == pendingRequests[key]
       IN (Issues(c) /\ options'[c].enableDeduplication /\ owner # 0) =>
            /\ pc'[c] = "joined"
            /\ via'[c] = owner
            /\ requestHistory' = requestHistory
            /\ check'[c] = check[c]
            /\ ~check'[c].consulted /\ ~check'[c].recorded
            /\ attempts'[c] = 0
            /\ (options[owner].enableRateLimit /\ config[owner].url # "")
                 => ( /\ check[owner].recorded
                      /\ ~\E d \in Calls : d # owner /\ via[d] = owner /\ check[d].recorded )
    ]_vars

\* A call joined at the hour its owner took the only slot of the window, and it
\* has the payload of the owner.
C36_Witness ==
  \E c \in Calls :
    /\ pc[c] = "joined"
    /\ now = check[via[c]].at
    /\ ~canMakeRequest(requestHistory, config[c].url, now).allowed
    /\ Len(requestHistory[config[c].url]) = 1
    /\ Outcome(c).state = "resolved"

\* C37: an admitted request() adds exactly one timestamp to the list of its
\* url, when it is admitted; no other step of the wrapper (an answer of the
\* transport, a retry, a cleanup, a trigger) consults or writes the limiter,
\* so a request with up to retries + 1 attempts counts once.
C37_RecordedOncePerRequest ==
  [][ /\ (\A c \in Calls : ~Issues(c)) =>
           /\ requestHistory' = requestHistory
           /\ check' = check
      /\ \A c \in Calls :
           LET url == config'[c].url IN
           (Issues(c) /\ check'[c].allowed) =>
             /\ check'[c].recorded
             /\ requestHistory'[HistoryKey(url)] =
                  Append(AfterCheck(requestHistory, url, now)[HistoryKey(url)], now)
             /\ \A u \in Urls \ {HistoryKey(url)} : requestHistory'[u] = requestHistory[u]
    ]_vars

\* A request has made all its attempts within the window and its url has the
\* one timestamp of its admission.
C37_Witness ==
  \E c \in Calls :
    /\ check[c].recorded
    /\ options[c].retries = MaxRetries
    /\ attempts[c] = MaxRetries + 1
    /\ now < check[c].at + WindowMs
    /\ requestHistory[config[c].url] = << check[c].at >>

\* Call c joined a request, its own handle has been triggered and the handle
\* of the owner has not.
JoinerTriggered(c) ==
  /\ pc[c] = "joined"
  /\ triggered[c].done
  /\ signal[via[c]] # "aborted"

\* C38: the retry loop consults the cancellation handle of the call that
\* created the in-flight entry and no other: a request ends with the
\* cancellation error only when the handle of its owner is triggered, and when
\* only a joiner's handle is triggered the request makes its attempts as
\* without it and the shared result is not the cancellation.
C38_OnlyOwnerHandleCounts ==
  /\ [](\A c \in Calls :
          JoinerTriggered(c) =>
            LET owner == via[c] IN
            pc[owner] = "settled" =>
              /\ promise[owner].reason # CancelledError
              /\ promise[owner].state = "rejected" =>
                   \/ attempts[owner] = options[owner].retries + 1
                   \/ ~isRetryableError(promise[owner].reason))
  /\ [][\A d \in Calls :
          ( /\ promise'[d] # promise[d]
            /\ promise'[d].state = "rejected"
            /\ promise'[d].reason = CancelledError )
          => signal'[d] = "aborted"]_vars

\* A joiner triggered its handle while the owner was waiting to retry; the
\* owner made its second attempt after that and both have its payload.
C38_Witness ==
  \E c \in Calls :
    /\ JoinerTriggered(c)
    /\ triggered[c].at = "joined"
    /\ triggered[c].attempts = 1
    /\ attempts[via[c]] = 2
    /\ Outcome(c).state = "resolved"

\* The calls made before this step for the key of call c.
EarlierCalls(c) ==
  { d \in Calls \ {c} : Issued(d) /\ getRequestKey(config[d]) = getRequestKey(config'[c]) }

\* C39: a request() made with a handle that is not triggered, after the
\* earlier calls for its key were cancelled, makes a network attempt of its own
\* (it does not get the result of a cancelled call).
C39_FreshHandleOwnAttempt ==
  [][\A c \in Calls :
       ( /\ Issues(c)
         /\ signal'[c] # "aborted"
         /\ EarlierCalls(c) # {}
         /\ \A d \in EarlierCalls(c) : signal[d] = "aborted" )
       => /\ via'[c] = c
          /\ attempts'[c] = 1
          /\ pc'[c] = "attempting"
    ]_vars

\* A response with a 2xx status whose envelope has a status other than
\* "success".
FailureEnvelope(response) ==
  /\ response.status \in 200..299
  /\ ~response.body.void
  /\ response.body.status \notin {"", "success"}

\* C40: a request whose attempt is answered with a 2xx response and an
\* envelope status other than "success" is rejected with the wrapped error
\* and makes no further attempt, whatever the message of the envelope and the
\* number of retries: answered so on its first attempt, it has made one.
C40_FailureEnvelopeNotRetried ==
  \A c \in Calls :
    (lastAttempt[c].responded /\ FailureEnvelope(lastAttempt[c].response)) =>
      LET response == lastAttempt[c].response IN
      /\ pc[c] = "settled"
      /\ promise[c].state = "rejected"
      /\ promise[c].reason = wrappedError(response, validateResponse(response).message)
      /\ promise[c].reason.type \in {"validation", "not_found", "unknown"}
      /\ attempts[c] = lastAttempt[c].n

\* A request with a retry left was answered on its first attempt with a
\* failure envelope whose message mentions a timeout, and made no other.
C40_Witness ==
  \E c \in Calls :
    /\ options[c].retries = MaxRetries
    /\ attempts[c] = 1
    /\ lastAttempt[c].responded
    /\ FailureEnvelope(lastAttempt[c].response)
    /\ lastAttempt[c].response.body.message = "timeout of 10000ms exceeded"
    /\ promise[c].state = "rejected"
    /\ promise[c].reason.type = "unknown"

\* C5: a request performs at most retries + 1 attempts, and when an attempt
\* gets a success envelope the request resolves with the payload of that
\* attempt and performs no further attempt.
C5_RetriesThenSuccess ==
  \A c \in Calls :
    /\ attempts[c] <= options[c].retries + 1
    /\ ( /\ lastAttempt[c].responded
         /\ lastAttempt[c].response.body.status = "success"
         /\ lastAttempt[c].response.body.hasData )
       => /\ promise[c].state = "resolved"
          /\ promise[c].value.inner
          /\ promise[c].value.data = lastAttempt[c].response.body.data
          /\ attempts[c] = lastAttempt[c].n

C5_Witness ==
  \E c \in Calls :
    /\ attempts[c] = options[c].retries + 1
    /\ attempts[c] >= 2
    /\ lastError[c].type \in RetryableTypes
    /\ promise[c].state = "resolved"

\* C6: an attempt is followed by a wait or by another attempt only if it failed
\* with a network, timeout, server_error or rate_limit error; a failure of any
\* other kind rejects the request with that error and no attempt follows.
C6_OnlyRetryableRetried ==
  \A c \in Calls :
    /\ (pc[c] = "sleeping" \/ attempts[c] > lastAttempt[c].n)
         => (lastAttempt[c].n = 0 \/ lastError[c].type \in RetryableTypes)
    /\ ( /\ lastAttempt[c].n > 0
         /\ promise[c].state # "resolved"
         /\ lastError[c].type \notin RetryableTypes )
       => /\ promise[c].state = "rejected"
          /\ promise[c].reason = lastError[c]
          /\ attempts[c] = lastAttempt[c].n

C6_Witness ==
  \E c \in Calls :
    /\ options[c].retries >= 1
    /\ attempts[c] = 1
    /\ promise[c].state = "rejected"
    /\ promise[c].reason.type \in {"validation", "not_found", "unknown"}

\* C7: every error a request() call is rejected with is a normalized error:
\* status 'error', a type among ERROR_TYPES and a message.
C7_OnlyNormalizedErrors ==
  \A c \in Calls :
    (Issued(c) /\ Outcome(c).state = "rejected") => IsNormalized(Outcome(c).reason)

\* C8: a request the limiter denies is rejected at once with a rate_limit
\* normalized error whose retryAfter is in 1..windowMs, performs no attempt,
\* never enters the retry loop, records no timestamp and stores no table
\* entry; a timestamp is recorded only for an admitted request.
C8_DeniedImmediately ==
  \A c \in Calls :
    /\ (check[c].consulted /\ ~check[c].allowed)
         => /\ Outcome(c).state = "rejected"
            /\ IsNormalized(Outcome(c).reason)
            /\ Outcome(c).reason.type = "rate_limit"
            /\ Outcome(c).reason.retryAfter = check[c].retryAfter
            /\ check[c].retryAfter > 0
            /\ check[c].retryAfter <= getLimitConfig(config[c].url).windowMs
            /\ attempts[c] = 0
            /\ pc[c] = "denied"
            /\ ~check[c].recorded
            /\ \A k \in Keys : pendingRequests[k] # c
    /\ check[c].recorded => (check[c].consulted /\ check[c].allowed)

C8_Witness ==
  \E c \in Calls :
    /\ check[c].consulted
    /\ ~check[c].allowed
    /\ Outcome(c).reason.retryAfter = 1
    /\ requestHistory[config[c].url] # <<>>

\* The requests for url that were recorded in the window (t - windowMs, t].
RecordedInWindow(urls, t, windowMs) ==
  { d \in Calls : /\ check[d].recorded
                  /\ config[d].url \in urls
                  /\ check[d].at > t - windowMs
                  /\ check[d].at <= t }

\* C9: for one endpoint a check is allowed exactly when fewer than maxRequests
\* requests were recorded in the window ending at the check; a denied check
\* has now < resetAt <= now + windowMs; with the admitted request the window
\* holds at most maxRequests timestamps.
C9_SlidingWindow ==
  \A c \in Calls :
    check[c].consulted =>
      LET limit == getLimitConfig(config[c].url)
          earlier == RecordedInWindow({config[c].url}, check[c].at, limit.windowMs) \ {c}
      IN /\ check[c].allowed <=> Cardinality(earlier) < limit.maxRequests
         /\ ~check[c].allowed
              => /\ check[c].at < check[c].resetAt
                 /\ check[c].resetAt <= check[c].at + limit.windowMs
         /\ check[c].allowed
              => /\ check[c].recorded
                 /\ Cardinality(earlier) + 1 <= limit.maxRequests
                 /\ Len(requestHistory[config[c].url]) <= limit.maxRequests

C9_Witness ==
  \E c, d \in Calls :
    /\ c < d
    /\ config[c].url = config[d].url
    /\ check[c].consulted /\ check[c].allowed
    /\ check[d].consulted /\ ~check[d].allowed
    /\ check[d].at > check[c].at

\* C10: the requests admitted within windowMs for all the urls that match one
\* configured pattern never exceed the maxRequests of the pattern.
C10_WindowPerPattern ==
  \A i \in 1..Len(LimitPatterns) : \A t \in Times :
    LET pattern == LimitPatterns[i]
        urls == { u \in Urls : MatchedPattern(u) = pattern }
    IN Cardinality(RecordedInWindow(urls, t, limits(pattern).windowMs))
         <= limits(pattern).maxRequests

====
